---------------------------- MODULE Spec2Model ----------------------------
(***************************************************************************)
(* Expense-Tracker: the Express/MySQL API (register, login, expense CRUD,  *)
(* reports) as a state machine.  Every `await connection.execute(...)` of  *)
(* a handler is one atomic step against the store; a handler with two      *)
(* statements (register, update_expense, a report) is two steps, and other *)
(* requests' steps may run between them (Node runs the handlers of         *)
(* concurrent requests interleaved at their awaits).                       *)
(*                                                                         *)
(* Strings that the code parses (userid, expense id, amount, username,     *)
(* email) are sequences of one-character strings.  Amounts are whole       *)
(* numbers, on which parseFloat and JavaScript's + are exact.  Store calls *)
(* succeed in every specification but SpecFail, where each may fail.       *)
(***************************************************************************)
EXTENDS Integers, Sequences, FiniteSets, TLC

\* ------------------------------------------------------------------ bounds
\* Number of expense rows ever inserted (caps the AUTO_INCREMENT id).
MaxExpenses == 2
\* Number of user rows ever inserted into `register`.
MaxUsers == 2

\* ------------------------------------------------------------ value domains
\* Requesters' numeric user ids.
UserIds == {1, 2}
\* The dates <<year, month, day>> the server clock (CURDATE(), moment()) passes.
ClockDates == {<<2025, 1, 31>>, <<2025, 2, 1>>}
\* absent value of an optional slot
None == <<>>

\* ------------------------------------------------------- strings and parsing
DigitChars == <<"0", "1", "2", "3", "4", "5", "6", "7", "8", "9">>
IsDigit(c) == \E i \in 1..10 : DigitChars[i] = c
DigitVal(c) == (CHOOSE i \in 1..10 : DigitChars[i] = c) - 1
\* decimal string of a one-digit number
Str(n) == <<DigitChars[n + 1]>>

\* value of the longest prefix of decimal digits of s, starting at position i
\* with the value acc read so far
RECURSIVE DigitsFrom(_, _, _)
DigitsFrom(s, i, acc) ==
    IF i > Len(s) \/ ~IsDigit(s[i]) THEN acc
    ELSE DigitsFrom(s, i + 1, 10 * acc + DigitVal(s[i]))

\* JavaScript parseInt / parseFloat on a string without "." or exponent: an
\* optional sign, then the longest run of digits; anything after it is
\* ignored; no digit at all gives NaN.  Result: <<n>>, or NaN as <<>>.
NaN == <<>>
isNaN(v) == v = NaN
NumericPrefix(s) ==
    LET neg == Len(s) >= 1 /\ s[1] = "-"
        from == IF neg THEN 2 ELSE 1
    IN  IF from > Len(s) \/ ~IsDigit(s[from]) THEN NaN
        ELSE <<(IF neg THEN -1 ELSE 1) * DigitsFrom(s, from, 0)>>
parseInt(s) == NumericPrefix(s)
parseFloat(s) == NumericPrefix(s)

\* MySQL's conversion of a string parameter compared with the integer column
\* `id`: the numeric prefix, 0 when there is none.
SqlNumber(s) == IF isNaN(NumericPrefix(s)) THEN 0 ELSE NumericPrefix(s)[1]

\* JavaScript truthiness of a form field: the empty (or missing) string is falsy.
Falsy(s) == s = <<>>

\* ------------------------------------------------------------ request inputs
UserIdInputs == {<<>>, <<"x">>, <<"1">>, <<"2">>, <<"2", "x">>}
ExpenseIdInputs == {Str(i) : i \in 1..MaxExpenses} \cup {<<"x">>, <<"1", "x">>}
\* The bodies of addexpense and update_expense requests.  A missing text field
\* is the empty string, a missing date is None.
Body(date, amount, category) ==
    [date |-> date, expensename |-> "lunch", amount |-> amount, paymode |-> "cash",
     category |-> category]
ValidBodies ==
    {Body(<<2025, 1, 30>>, <<"1">>, "food"), Body(<<2025, 1, 31>>, <<"2">>, "rent"),
     Body(<<2025, 2, 1>>, <<"2">>, "food"), Body(<<2024, 1, 31>>, <<"1">>, "rent")}
MalformedBodies ==
    {Body(None, <<"1">>, "food"), Body(<<2025, 1, 31>>, <<>>, "food"),
     Body(<<2025, 1, 31>>, <<"a">>, "food"), Body(<<2025, 1, 31>>, <<"1">>, "")}
\* The requests: the well-formed ones (user 1 with every valid body, user 2
\* with two of them), and those with one malformed field.
OneBody == Body(<<2025, 1, 31>>, <<"2">>, "rent")
OtherBody == Body(<<2024, 1, 31>>, <<"1">>, "rent")
MalformedUserIds == UserIdInputs \ {<<"1">>, <<"2">>}
AddRequests ==
    {[userid |-> <<"1">>, body |-> b] : b \in ValidBodies \cup MalformedBodies}
    \cup {[userid |-> <<"2">>, body |-> b] : b \in {OneBody, OtherBody}}
    \cup {[userid |-> u, body |-> OneBody] : u \in MalformedUserIds}
IdRequests ==
    {[expense_id |-> Str(i), userid |-> u] : i \in 1..MaxExpenses, u \in {<<"1">>, <<"2">>}}
    \cup {[expense_id |-> e, userid |-> <<"1">>] : e \in ExpenseIdInputs}
    \cup {[expense_id |-> <<"1">>, userid |-> u] : u \in MalformedUserIds}
UpdateRequests ==
    {[expense_id |-> r.expense_id, userid |-> r.userid, body |-> OneBody] :
        r \in IdRequests}
    \cup {[expense_id |-> <<"1">>, userid |-> <<"1">>, body |-> b] : b \in MalformedBodies}

\* -------------------------------------------------------------------- state
VARIABLES
    expenses,       \* table `expenses`: a set of rows, `id` unique
    nextExpenseId,  \* AUTO_INCREMENT of expenses.id
    now,            \* the server's current date
    upd,            \* the update_expense request between its SELECT and its UPDATE
    rep,            \* the report request between its two SELECTs
    register,       \* table `register`: a set of user rows, `id` unique
    nextUserId,     \* AUTO_INCREMENT of register.id
    regs,           \* the register requests between their SELECT and their INSERT
    uniqueKeys,     \* whether the table `register` declares username and email UNIQUE
    resp            \* the response sent last, with the request it answers

\* the connection pool and the requests that use it
VARIABLES
    pc,             \* where each request stands in its handler
    connection,     \* whether the handler's variable `connection` is set
    checkedOut,     \* number of pool connections checked out
    released,       \* number of connection.release() calls of each request
    outcome         \* how each request was answered

\* the browser: the state of the React components
VARIABLES
    isLoggedIn,     \* Index: useState(false)
    currentUser,    \* Index: useState<User | null>(null), None for null
    indexIsLoading, \* Index: isLoading, useState(false)
    dashboardExpenses,  \* Dashboard: expenses, useState<Expense[]>([])
    dashboardIsLoading, \* Dashboard: isLoading, useState(true)
    showAddForm,    \* Dashboard: useState(false)
    formIsLoading,  \* AddExpenseForm: isLoading, useState(false)
    toasts,         \* the notifications displayed so far
    calls           \* the requests the pages have made through ApiService

\* what ExpenseChart last rendered, with the expenses it was given
VARIABLE chart

expenseVars == <<expenses, nextExpenseId, now, upd, rep>>
authVars == <<register, nextUserId, regs, uniqueKeys>>
poolVars == <<pc, connection, checkedOut, released, outcome>>
clientVars ==
    <<isLoggedIn, currentUser, indexIsLoading, dashboardExpenses, dashboardIsLoading,
      showAddForm, formIsLoading, toasts, calls>>
vars == <<expenseVars, authVars, resp, poolVars, clientVars, chart>>

\* ------------------------------------------------------ dates (MySQL, moment)
\* a DATETIME value is <<year, month, day, hour>>; the text of a date without a
\* time of day is stored with the time 00:00
ToDateTime(d) == IF Len(d) = 3 THEN <<d[1], d[2], d[3], 0>> ELSE d
DATE(dt) == <<dt[1], dt[2], dt[3]>>
YEAR(dt) == dt[1]
MONTH(dt) == dt[2]
MonthNames == <<"January", "February", "March", "April", "May", "June", "July",
                "August", "September", "October", "November", "December">>
\* moment(date).format('YYYY-MM-DD') and DATE_FORMAT(date, "%Y-%m-%d")
FormatDate(dt) == <<dt[1], dt[2], dt[3]>>
\* TIME_FORMAT(date, "%H:%i")
TIME_FORMAT(dt) == dt[4]
\* chronological order of dates and of datetimes (tuples of equal length)
RECURSIVE TupleLess(_, _, _)
TupleLess(a, b, i) ==
    IF i > Len(a) THEN FALSE
    ELSE IF a[i] # b[i] THEN a[i] < b[i]
    ELSE TupleLess(a, b, i + 1)
Before(a, b) == TupleLess(a, b, 1)

\* the text of a DECIMAL value as mysql2 returns it (whole numbers below 100)
DecimalStr(n) ==
    LET m == IF n < 0 THEN -n ELSE n
        digits == IF m < 10 THEN Str(m) ELSE Str(m \div 10) \o Str(m % 10)
    IN  IF n < 0 THEN <<"-">> \o digits ELSE digits

\* ------------------------------------------------------------- SQL statements
RECURSIVE SUM(_)
SUM(rows) ==
    IF rows = {} THEN 0
    ELSE LET r == CHOOSE r \in rows : TRUE IN r.amount + SUM(rows \ {r})

\* a variant whose tie-break is id ASC
RowAfterIdAsc(r, q) == Before(q.date, r.date) \/ (q.date = r.date /\ q.id > r.id)
\* ORDER BY date DESC, id DESC
RowAfter(r, q) == Before(q.date, r.date) \/ (q.date = r.date /\ q.id < r.id)
RECURSIVE OrderByDateDescIdDesc(_)
OrderByDateDescIdDesc(rows) ==
    IF rows = {} THEN <<>>
    ELSE LET r == CHOOSE r \in rows : \A q \in rows \ {r} : RowAfter(r, q)
         IN  <<r>> \o OrderByDateDescIdDesc(rows \ {r})

\* the elements of a set of dates in ascending order (ORDER BY DATE(date))
RECURSIVE AscendingDates(_)
AscendingDates(keys) ==
    IF keys = {} THEN <<>>
    ELSE LET k == CHOOSE k \in keys : \A j \in keys \ {k} : Before(k, j)
         IN  <<k>> \o AscendingDates(keys \ {k})
\* the elements of a set of month numbers in ascending order (ORDER BY MONTH(date))
RECURSIVE AscendingMonths(_)
AscendingMonths(keys) ==
    IF keys = {} THEN <<>>
    ELSE LET k == CHOOSE k \in keys : \A j \in keys \ {k} : k < j
         IN  <<k>> \o AscendingMonths(keys \ {k})

\* WHERE clauses of the three windows, `today` being the date they resolve
InToday(r, uid, today) == r.userid = uid /\ DATE(r.date) = today
\* a variant of the month window without its YEAR(date) = YEAR(CURDATE())
InMonthAnyYear(r, uid, today) == r.userid = uid /\ MONTH(r.date) = MONTH(today)
InMonth(r, uid, today) ==
    r.userid = uid /\ MONTH(r.date) = MONTH(today) /\ YEAR(r.date) = YEAR(today)
InYear(r, uid, today) == r.userid = uid /\ YEAR(r.date) = YEAR(today)
InWindow(window, r, uid, today) ==
    CASE window = "today" -> InToday(r, uid, today)
      [] window = "month" -> InMonth(r, uid, today)
      [] window = "year" -> InYear(r, uid, today)

\* SELECT id, userid, date, ... FROM expenses WHERE <window> ORDER BY date DESC, id DESC
SelectRaw(window, uid, today) ==
    OrderByDateDescIdDesc({r \in expenses : InWindow(window, r, uid, today)})

\* SELECT ... FROM expenses WHERE userid = ? ORDER BY date DESC, id DESC
SelectByUser(uid) == OrderByDateDescIdDesc({r \in expenses : r.userid = uid})

\* a variant without its AND userid = ?
SelectOneAnyUser(expense_id, uid) == {r \in expenses : r.id = SqlNumber(expense_id)}
\* SELECT ... FROM expenses WHERE id = ? AND userid = ?
SelectOne(expense_id, uid) ==
    {r \in expenses : r.id = SqlNumber(expense_id) /\ r.userid = uid}

\* /report/today's first SELECT ... ORDER BY date: one row per expense; rows of
\* equal date come in an order SQL leaves open.
TimeSeriesRows(uid, today) ==
    LET rows == {r \in expenses : InToday(r, uid, today)}
        n == Cardinality(rows)
    IN  {s \in [1..n -> rows] :
            /\ \A i, j \in 1..n : i # j => s[i] # s[j]
            /\ \A i, j \in 1..n : i < j => ~Before(s[j].date, s[i].date)}
TimeSeriesItem(r) ==
    [date_only |-> FormatDate(r.date), time_of_day |-> TIME_FORMAT(r.date),
     amount |-> DecimalStr(r.amount)]

\* a variant grouped by the whole DATETIME: GROUP BY date ORDER BY date
DailyTotalsByDateTime(uid, today) ==
    LET rows == {r \in expenses : InMonth(r, uid, today)}
        times == AscendingDates({r.date : r \in rows})
    IN  [i \in 1..Len(times) |->
            [day |-> FormatDate(times[i]),
             total_amount |-> DecimalStr(SUM({r \in rows : r.date = times[i]}))]]
\* /report/month's first SELECT: GROUP BY DATE(date) ORDER BY DATE(date)
DailyTotals(uid, today) ==
    LET rows == {r \in expenses : InMonth(r, uid, today)}
        days == AscendingDates({DATE(r.date) : r \in rows})
    IN  [i \in 1..Len(days) |->
            [day |-> FormatDate(days[i]),
             total_amount |-> DecimalStr(SUM({r \in rows : DATE(r.date) = days[i]}))]]

\* /report/year's first SELECT: GROUP BY MONTH(date), MONTHNAME(date) ORDER BY MONTH(date)
MonthlyTotals(uid, today) ==
    LET rows == {r \in expenses : InYear(r, uid, today)}
        months == AscendingMonths({MONTH(r.date) : r \in rows})
    IN  [i \in 1..Len(months) |->
            [month_num |-> months[i],
             month_name |-> MonthNames[months[i]],
             total_amount |-> DecimalStr(SUM({r \in rows : MONTH(r.date) = months[i]}))]]

\* ------------------------------------------------- the handlers' JavaScript
\* rows.forEach(e => { e.date = moment(e.date).format(...); e.amount = parseFloat(e.amount) })
FormatExpense(r) ==
    [r EXCEPT !.date = FormatDate(r.date), !.amount = parseFloat(DecimalStr(r.amount))[1]]
FormatExpenses(rows) == [i \in 1..Len(rows) |-> FormatExpense(rows[i])]

\* rawExpenses.reduce((sum, exp) => sum + exp.amount, 0)
RECURSIVE Total(_)
Total(rawExpenses) ==
    IF rawExpenses = <<>> THEN 0
    ELSE Total(SubSeq(rawExpenses, 1, Len(rawExpenses) - 1))
         + rawExpenses[Len(rawExpenses)].amount

\* a variant that stores the amount instead of adding it:
\* categoryTotals[exp.category] = exp.amount
RECURSIVE CategoryTotalsOverwrite(_)
CategoryTotalsOverwrite(rawExpenses) ==
    IF rawExpenses = <<>> THEN <<>>
    ELSE LET acc == CategoryTotalsOverwrite(SubSeq(rawExpenses, 1, Len(rawExpenses) - 1))
             exp == rawExpenses[Len(rawExpenses)]
         IN  [c \in DOMAIN acc \cup {exp.category} |->
                 IF c = exp.category THEN exp.amount ELSE acc[c]]

\* a variant that starts from an entry of 0 for every category of the form:
\* const categoryTotals = { food: 0, rent: 0 }
CategoryTotalsZeroed(rawExpenses) ==
    [c \in {"food", "rent"} \cup {rawExpenses[i].category : i \in DOMAIN rawExpenses} |->
        Total(SelectSeq(rawExpenses, LAMBDA e : e.category = c))]

\* categoryTotals[exp.category] = (categoryTotals[exp.category] || 0) + exp.amount
RECURSIVE CategoryTotals(_)
CategoryTotals(rawExpenses) ==
    IF rawExpenses = <<>> THEN <<>>
    ELSE LET acc == CategoryTotals(SubSeq(rawExpenses, 1, Len(rawExpenses) - 1))
             exp == rawExpenses[Len(rawExpenses)]
             old == IF exp.category \in DOMAIN acc THEN acc[exp.category] ELSE 0
         IN  [c \in DOMAIN acc \cup {exp.category} |->
                 IF c = exp.category THEN old + exp.amount ELSE acc[c]]

\* item.amount = parseFloat(item.amount) on each row of the first SELECT
ParseField(series, field) ==
    [i \in 1..Len(series) |->
        IF field = "amount"
        THEN [series[i] EXCEPT !.amount = parseFloat(series[i].amount)[1]]
        ELSE [series[i] EXCEPT !.total_amount = parseFloat(series[i].total_amount)[1]]]

\* ---------------------------------------------------------------- responses
Response(code, status, message, data) ==
    [code |-> code, status |-> status, message |-> message, data |-> data]
Success(code, message) == Response(code, "success", message, <<>>)
SuccessData(data) == Response(200, "success", "", <<data>>)
Error(code, message) == Response(code, "error", message, <<>>)

\* the userid checks that open every expense and report handler
UserIdError(userid) ==
    IF Falsy(userid) THEN <<Error(400, "User ID is required!")>>
    ELSE IF isNaN(parseInt(userid)) THEN <<Error(400, "Invalid User ID format!")>>
    ELSE <<>>


\* ------------------------------------------------------------------- requests
\* resp is the response the last step sent (NoResponse when it sent none):
\* op, the response `res`, and `aux`, what the step saw in the store.
NoResponse == [op |-> "none", res |-> <<>>, aux |-> <<>>]
Sent(op, res, aux) == [op |-> op, res |-> res, aux |-> aux]

\* a write statement that changed the table ran while a report is between its
\* two SELECTs
NoteWrite(changed) ==
    rep' = IF rep # <<>> /\ changed THEN <<[rep[1] EXCEPT !.writes = TRUE]>> ELSE rep

\* What the table holds when a handler's first statement names (expense_id,
\* uid): whether uid owns a row of that id, and whether anybody does.
Owned(expense_id, uid) ==
    \E r \in expenses : r.id = SqlNumber(expense_id) /\ r.userid = uid
Exists(expense_id) == \E r \in expenses : r.id = SqlNumber(expense_id)
Seen(expense_id, uid) ==
    [owned |-> Owned(expense_id, uid), exists |-> Exists(expense_id)]

\* the field checks shared by addexpense and update_expense
FieldsMissing(date, expensename, amount, paymode, category) ==
    date = None \/ expensename = "" \/ Falsy(amount) \/ paymode = "" \/ category = ""

\* POST /addexpense
AddExpenseResponse(userid, date, expensename, amount, paymode, category) ==
    IF UserIdError(userid) # <<>> THEN UserIdError(userid)[1]
    ELSE IF FieldsMissing(date, expensename, amount, paymode, category)
    THEN Error(400, "Please fill out all fields for expense!")
    ELSE IF isNaN(parseFloat(amount))
    THEN Error(400, "Invalid amount format! Amount must be a number.")
    ELSE Success(201, "Expense added successfully!")

AddExpense(userid, date, expensename, amount, paymode, category) ==
    LET res == AddExpenseResponse(userid, date, expensename, amount, paymode, category)
        inserted == res.code = 201
    IN  /\ inserted => nextExpenseId <= MaxExpenses
        /\ expenses' =
             IF inserted
             THEN expenses \cup
                    {[id |-> nextExpenseId, userid |-> parseInt(userid)[1],
                      date |-> ToDateTime(date), expensename |-> expensename,
                      amount |-> parseFloat(amount)[1], paymode |-> paymode,
                      category |-> category]}
             ELSE expenses
        /\ nextExpenseId' = IF inserted THEN nextExpenseId + 1 ELSE nextExpenseId
        /\ NoteWrite(inserted)
        /\ resp' = Sent("addexpense", res, <<>>)
        /\ UNCHANGED <<now, upd, authVars, poolVars, clientVars, chart>>

\* GET /expenses
GetExpensesResponse(userid) ==
    IF UserIdError(userid) # <<>> THEN UserIdError(userid)[1]
    ELSE SuccessData(FormatExpenses(SelectByUser(parseInt(userid)[1])))

GetExpenses(userid) ==
    /\ resp' = Sent("expenses", GetExpensesResponse(userid),
                    IF UserIdError(userid) # <<>> THEN <<>>
                    ELSE [userid |-> parseInt(userid)[1]])
    /\ UNCHANGED <<expenses, nextExpenseId, now, upd, rep, authVars, poolVars, clientVars, chart>>

\* DELETE /delete_expense/:expense_id
\* a variant without its AND userid = ?
DeleteWhereAnyUser(expense_id, uid) ==
    {r \in expenses : r.id # SqlNumber(expense_id)}
\* rows left by DELETE FROM expenses WHERE id = ? AND userid = ?
DeleteWhere(expense_id, uid) == expenses \ SelectOne(expense_id, uid)

DeleteExpenseResponse(expense_id, userid) ==
    IF UserIdError(userid) # <<>> THEN UserIdError(userid)[1]
    ELSE IF Cardinality(expenses \ DeleteWhere(expense_id, parseInt(userid)[1])) > 0
    THEN Success(200, "Expense deleted successfully!")
    ELSE Error(404, "Expense not found or not authorized to delete.")

DeleteExpense(expense_id, userid) ==
    LET res == DeleteExpenseResponse(expense_id, userid)
        valid == UserIdError(userid) = <<>>
    IN  /\ expenses' = IF valid THEN DeleteWhere(expense_id, parseInt(userid)[1])
                       ELSE expenses
        /\ NoteWrite(expenses' # expenses)
        /\ resp' = Sent("delete_expense", res,
                        IF valid THEN Seen(expense_id, parseInt(userid)[1]) ELSE <<>>)
        /\ UNCHANGED <<nextExpenseId, now, upd, authVars, poolVars, clientVars, chart>>

\* GET /expense/:expense_id
GetExpenseResponse(expense_id, userid) ==
    IF UserIdError(userid) # <<>> THEN UserIdError(userid)[1]
    ELSE LET rows == SelectOne(expense_id, parseInt(userid)[1])
         IN  IF rows # {}
             THEN SuccessData(FormatExpense(CHOOSE r \in rows : TRUE))
             ELSE Error(404, "Expense not found or not authorized.")

GetExpense(expense_id, userid) ==
    /\ resp' = Sent("expense", GetExpenseResponse(expense_id, userid),
                    IF UserIdError(userid) = <<>>
                    THEN Seen(expense_id, parseInt(userid)[1]) ELSE <<>>)
    /\ UNCHANGED <<expenses, nextExpenseId, now, upd, rep, authVars, poolVars, clientVars, chart>>

\* PUT /update_expense/:expense_id, up to its SELECT: the checks of the body,
\* then "Check if expense exists and belongs to user"
UpdateExpenseError(userid, date, expensename, amount, paymode, category) ==
    IF UserIdError(userid) # <<>> THEN UserIdError(userid)
    ELSE IF FieldsMissing(date, expensename, amount, paymode, category)
    THEN <<Error(400, "Please fill out all fields for expense update!")>>
    ELSE IF isNaN(parseFloat(amount))
    THEN <<Error(400, "Invalid amount format! Amount must be a number.")>>
    ELSE <<>>

UpdateExpenseCheck(expense_id, userid, date, expensename, amount, paymode, category) ==
    LET err == UpdateExpenseError(userid, date, expensename, amount, paymode, category)
        valid == err = <<>>
        found == valid /\ Cardinality(SelectOne(expense_id, parseInt(userid)[1])) # 0
    IN  /\ found => upd = <<>>
        /\ upd' = IF found
                  THEN <<[expense_id |-> expense_id, userIdNum |-> parseInt(userid)[1]]>>
                  ELSE upd
        /\ resp' = IF found THEN NoResponse
                   ELSE IF valid
                   THEN Sent("update_expense",
                             Error(404, "Expense not found or not authorized to update."),
                             Seen(expense_id, parseInt(userid)[1]))
                   ELSE Sent("update_expense", err[1], <<>>)
        /\ UNCHANGED <<expenses, nextExpenseId, now, rep, authVars, poolVars, clientVars, chart>>

\* a variant without its id = ?: UPDATE expenses SET ... WHERE userid = ?
UpdateWhereUser(u, date, expensename, amountNum, paymode, category) ==
    {IF r.userid = u.userIdNum
     THEN [r EXCEPT !.date = ToDateTime(date), !.expensename = expensename,
                    !.amount = amountNum, !.paymode = paymode, !.category = category]
     ELSE r : r \in expenses}
\* rows after UPDATE expenses SET date = ?, ... WHERE id = ? AND userid = ?
UpdateWhere(u, date, expensename, amountNum, paymode, category) ==
    {IF r \in SelectOne(u.expense_id, u.userIdNum)
     THEN [r EXCEPT !.date = ToDateTime(date), !.expensename = expensename,
                    !.amount = amountNum, !.paymode = paymode, !.category = category]
     ELSE r : r \in expenses}
\* result.affectedRows: the rows the WHERE clause matched (mysql2 connects with
\* FOUND_ROWS)
UpdateAffectedRows(u) == Cardinality(SelectOne(u.expense_id, u.userIdNum))

UpdateExpenseResponse(u) ==
    IF UpdateAffectedRows(u) > 0 THEN Success(200, "Expense updated successfully!")
    ELSE Success(200, "No changes detected for expense.")

\* PUT /update_expense/:expense_id, its UPDATE and its answer.  The values of
\* the body passed the checks of the first step and are first used here; the
\* model draws them at this step.
UpdateExpenseExec(date, expensename, amount, paymode, category) ==
    /\ upd # <<>>
    /\ UpdateExpenseError(<<"1">>, date, expensename, amount, paymode, category) = <<>>
    /\ expenses' = UpdateWhere(upd[1], date, expensename, parseFloat(amount)[1],
                               paymode, category)
    /\ NoteWrite(expenses' # expenses)
    /\ resp' = Sent("update_expense", UpdateExpenseResponse(upd[1]),
                    [owned |-> TRUE, exists |-> TRUE,
                     matched |-> Owned(upd[1].expense_id, upd[1].userIdNum)])
    /\ upd' = <<>>
    /\ UNCHANGED <<nextExpenseId, now, authVars, poolVars, clientVars, chart>>

\* ------------------------------------------------------------------- reports
Windows == {"today", "month", "year"}

\* a variant of /report/today's first SELECT that sums the expenses of one time:
\* SELECT ..., SUM(amount) AS amount ... GROUP BY date ORDER BY date
TimeSeriesSummed(uid, today) ==
    LET rows == {r \in expenses : InToday(r, uid, today)}
        times == AscendingDates({r.date : r \in rows})
    IN  [i \in 1..Len(times) |->
            [date_only |-> FormatDate(times[i]), time_of_day |-> TIME_FORMAT(times[i]),
             amount |-> DecimalStr(SUM({r \in rows : r.date = times[i]}))]]
BucketSeriesSummed(window, uid, today) ==
    CASE window = "today" -> {ParseField(TimeSeriesSummed(uid, today), "amount")}
      [] window = "month" -> {ParseField(DailyTotals(uid, today), "total_amount")}
      [] window = "year" -> {ParseField(MonthlyTotals(uid, today), "total_amount")}

\* the rows of a report's first SELECT, parsed: the results SQL may give
BucketSeries(window, uid, today) ==
    CASE window = "today" ->
           {ParseField([i \in 1..Len(s) |-> TimeSeriesItem(s[i])], "amount") :
              s \in TimeSeriesRows(uid, today)}
      [] window = "month" -> {ParseField(DailyTotals(uid, today), "total_amount")}
      [] window = "year" -> {ParseField(MonthlyTotals(uid, today), "total_amount")}

\* GET /report/today|month|year up to its first SELECT.  /report/today takes
\* the date once (todayDate = moment().format(...)) and passes it to both
\* statements; month and year leave it to each statement's CURDATE().
ReportBuckets(window, userid) ==
    LET err == UserIdError(userid)
        valid == err = <<>>
    IN  /\ valid => rep = <<>>
        /\ \E series \in IF valid THEN BucketSeries(window, parseInt(userid)[1], now)
                         ELSE {<<>>} :
             rep' = IF valid
                    THEN <<[window |-> window, userIdNum |-> parseInt(userid)[1],
                            todayDate |-> now, series |-> series, writes |-> FALSE]>>
                    ELSE rep
        /\ resp' = IF valid THEN NoResponse ELSE Sent("report", err[1], <<>>)
        /\ UNCHANGED <<expenses, nextExpenseId, now, upd, authVars, poolVars, clientVars, chart>>

\* the date the second SELECT of report r resolves its window against
RawDate(r) == IF r.window = "today" THEN r.todayDate ELSE now

ReportData(r) ==
    LET rawExpenses == FormatExpenses(SelectRaw(r.window, r.userIdNum, RawDate(r)))
    IN  [window |-> r.window,
         series |-> r.series,
         raw_expenses |-> rawExpenses,
         total_expenses |-> Total(rawExpenses),
         category_totals |-> CategoryTotals(rawExpenses)]

\* GET /report/today|month|year, its second SELECT and its answer
ReportRaw ==
    /\ rep # <<>>
    /\ resp' = Sent("report", SuccessData(ReportData(rep[1])),
                    [userid |-> rep[1].userIdNum, bucketsDate |-> rep[1].todayDate,
                     rawDate |-> RawDate(rep[1]), writes |-> rep[1].writes])
    /\ rep' = <<>>
    /\ UNCHANGED <<expenses, nextExpenseId, now, upd, authVars, poolVars, clientVars, chart>>

\* the server's date passes to a later one
Tick ==
    /\ \E d \in ClockDates : Before(now, d) /\ now' = d
    /\ resp' = NoResponse
    /\ UNCHANGED <<expenses, nextExpenseId, upd, rep, authVars, poolVars, clientVars, chart>>

\* ------------------------------------------------------ register and login
\* Number of register requests between their SELECT and their INSERT.
MaxPending == 2

Letters == {"a", "b", "c"}
\* /^[^\s@]+@[^\s@]+\.[^\s@]+$/ : three parts without blank or "@", the first two
\* joined by "@", the last two by "."
EmailPart(s, lo, hi) == lo <= hi /\ \A k \in lo..hi : s[k] \notin {" ", "@"}
EmailRegexTest(s) ==
    \E i, j \in 1..Len(s) :
        /\ i < j
        /\ s[i] = "@"
        /\ s[j] = "."
        /\ EmailPart(s, 1, i - 1)
        /\ EmailPart(s, i + 1, j - 1)
        /\ EmailPart(s, j + 1, Len(s))
\* /^[A-Za-z0-9_.-]+$/
UsernameRegexTest(s) ==
    /\ Len(s) >= 1
    /\ \A k \in 1..Len(s) : s[k] \in Letters \/ IsDigit(s[k]) \/ s[k] \in {"_", ".", "-"}

\* bcrypt.hash(password, 10) with the salt it draws, and bcrypt.compare
Salts == {"s1"}
BcryptHash(password, salt) == <<"$2a$10$", salt, password>>
\* a variant for a compare whose promise is not awaited: always truthy
BcryptCompareUnawaited(password, hash) == TRUE
BcryptCompare(password, hash) == BcryptHash(password, hash[2]) = hash

\* the register and login requests
Email(local) == <<local, "@", "b", ".", "c">>
RegisterRequests ==
    {[username |-> <<"a">>, email |-> Email("a"), password |-> "p"],
     [username |-> <<"a">>, email |-> Email("b"), password |-> "q"],
     [username |-> <<"b">>, email |-> Email("a"), password |-> "p"],
     \* malformed: a field missing, a bad email, a bad username
     [username |-> <<>>, email |-> Email("c"), password |-> "p"],
     [username |-> <<"c">>, email |-> Email("c"), password |-> ""],
     [username |-> <<"c">>, email |-> <<"c", "@", "b">>, password |-> "p"],
     [username |-> <<"a">>, email |-> <<"n", "o", "t">>, password |-> "p"],
     [username |-> <<"c", " ">>, email |-> Email("c"), password |-> "p"]}
LoginRequests ==
    {[username |-> u, password |-> p] : u \in {<<"a">>, <<"b">>}, p \in {"p", "q"}}
    \cup {[username |-> <<>>, password |-> "p"], [username |-> <<"a">>, password |-> ""]}

\* SELECT * FROM register WHERE username = ? OR email = ?
SelectAccount(username, email) ==
    {r \in register : r.username = username \/ r.email = email}

\* POST /register up to its SELECT, and the two checks after it
RegisterError(username, email, password) ==
    IF Falsy(username) \/ Falsy(email) \/ password = ""
    THEN <<Error(400, "Please fill out all fields!")>>
    ELSE IF Cardinality(SelectAccount(username, email)) > 0
    THEN <<Error(409, "Account already exists with that username or email!")>>
    ELSE IF ~EmailRegexTest(email)
    THEN <<Error(400, "Invalid email address!")>>
    ELSE IF ~UsernameRegexTest(username)
    THEN <<Error(400, "Username can only contain letters, numbers, underscores, dots, and hyphens!")>>
    ELSE <<>>

RegisterSelect(username, email, password) ==
    LET err == RegisterError(username, email, password)
    IN  /\ err = <<>> => Len(regs) < MaxPending
        /\ regs' = IF err = <<>>
                   THEN Append(regs, [username |-> username, email |-> email,
                                      password |-> password])
                   ELSE regs
        /\ resp' = IF err = <<>> THEN NoResponse
                   ELSE Sent("register", err[1],
                             [emailOk |-> EmailRegexTest(email),
                              taken |-> SelectAccount(username, email) # {},
                              inserted |-> FALSE])
        /\ UNCHANGED <<expenseVars, register, nextUserId, uniqueKeys, poolVars, clientVars, chart>>

\* INSERT INTO register (username, email, password) VALUES (?, ?, ?): a
\* duplicate of a UNIQUE key makes the statement fail
InsertFails(q) == uniqueKeys /\ SelectAccount(q.username, q.email) # {}
InsertUser(q, salt) ==
    register \cup {[id |-> nextUserId, username |-> q.username, email |-> q.email,
                    password |-> BcryptHash(q.password, salt), spending_limit |-> None]}

RegisterInsertResponse(q) ==
    IF InsertFails(q) THEN Error(500, "Registration failed: Duplicate entry")
    ELSE Success(201, "You have successfully registered!")

\* POST /register, its INSERT and its answer
RegisterInsert(i, salt) ==
    LET q == regs[i]
        inserted == ~InsertFails(q)
    IN  /\ inserted => nextUserId <= MaxUsers
        /\ register' = IF inserted THEN InsertUser(q, salt) ELSE register
        /\ nextUserId' = IF inserted THEN nextUserId + 1 ELSE nextUserId
        /\ regs' = SubSeq(regs, 1, i - 1) \o SubSeq(regs, i + 1, Len(regs))
        /\ resp' = Sent("register", RegisterInsertResponse(q),
                        [emailOk |-> EmailRegexTest(q.email),
                         taken |-> SelectAccount(q.username, q.email) # {},
                         inserted |-> inserted])
        /\ UNCHANGED <<expenseVars, uniqueKeys, poolVars, clientVars, chart>>

\* POST /login.  `account` is rows[0] of SELECT ... WHERE username = ?, a
\* statement without ORDER BY: any of the rows it matches, <<>> if it matches none.
LoginResponse(username, password, account) ==
    IF Falsy(username) \/ password = ""
    THEN Error(400, "Please enter username and password!")
    ELSE IF account # <<>> /\ BcryptCompare(password, account[1].password)
    THEN Response(200, "success", "Login successful!",
                  <<[id |-> account[1].id, username |-> account[1].username,
                     email |-> account[1].email]>>)
    ELSE Error(401, "Incorrect username / password!")

Login(username, password) ==
    LET rows == {r \in register : r.username = username}
    IN  /\ \E account \in IF rows = {} THEN {<<>>} ELSE {<<r>> : r \in rows} :
             resp' = Sent("login", LoginResponse(username, password, account),
                          [username |-> username, password |-> password,
                           registered |-> rows # {}])
        /\ UNCHANGED <<expenseVars, authVars, poolVars, clientVars, chart>>

\* ----------------------------------------------------------- spending limit
\* the `number` field of POST /limit: nothing, text, whole numbers, a negative
\* number, a number followed by text
LimitInputs == {<<>>, <<"x">>, <<"5">>, <<"0">>, <<"-", "1">>, <<"5", "x">>}
LimitRequests ==
    {[userid |-> <<"1">>, number |-> n] : n \in LimitInputs}
    \cup {[userid |-> <<"2">>, number |-> <<"5">>]}
    \cup {[userid |-> u, number |-> <<"5">>] : u \in MalformedUserIds}

\* GET /limit: SELECT spending_limit FROM register WHERE id = ?
GetLimitResponse(userid) ==
    IF UserIdError(userid) # <<>> THEN UserIdError(userid)[1]
    ELSE LET rows == {r \in register : r.id = parseInt(userid)[1]}
             limit == IF rows # {} /\ (CHOOSE r \in rows : TRUE).spending_limit # None
                      THEN parseFloat(DecimalStr(
                               (CHOOSE r \in rows : TRUE).spending_limit[1]))[1]
                      ELSE 0
         IN  SuccessData([limit |-> limit])

GetLimit(userid) ==
    /\ resp' = Sent("get_limit", GetLimitResponse(userid), [userid |-> parseInt(userid)])
    /\ UNCHANGED <<expenseVars, authVars, poolVars, clientVars, chart>>

\* POST /limit, its checks
SetLimitError(userid, number_str) ==
    IF UserIdError(userid) # <<>> THEN UserIdError(userid)
    ELSE IF Falsy(number_str) THEN <<Error(400, "Limit value is required!")>>
    ELSE IF isNaN(parseFloat(number_str))
    THEN <<Error(400, "Invalid limit format! Limit must be a number.")>>
    ELSE <<>>

\* a variant without its WHERE id = ?
SetLimitEveryRow(limit_value, uid) ==
    {[r EXCEPT !.spending_limit = <<limit_value>>] : r \in register}
\* rows after UPDATE register SET spending_limit = ? WHERE id = ?
SetLimitWhere(limit_value, uid) ==
    {IF r.id = uid THEN [r EXCEPT !.spending_limit = <<limit_value>>] ELSE r :
        r \in register}
\* result.affectedRows: the rows the WHERE clause matched
SetLimitAffectedRows(uid) == Cardinality({r \in register : r.id = uid})

SetLimitResponse(userid, number_str) ==
    IF SetLimitError(userid, number_str) # <<>> THEN SetLimitError(userid, number_str)[1]
    ELSE IF SetLimitAffectedRows(parseInt(userid)[1]) = 0
    THEN Error(404, "User not found or limit not updated.")
    ELSE Success(201, "Spending limit set successfully!")

SetLimit(userid, number_str) ==
    LET valid == SetLimitError(userid, number_str) = <<>>
    IN  /\ register' = IF valid
                       THEN SetLimitWhere(parseFloat(number_str)[1], parseInt(userid)[1])
                       ELSE register
        /\ resp' = Sent("set_limit", SetLimitResponse(userid, number_str),
                        [userid |-> parseInt(userid), number |-> number_str,
                         changed |-> register' # register])
        /\ UNCHANGED <<expenseVars, nextUserId, regs, uniqueKeys, poolVars, clientVars, chart>>

\* ------------------------------------------------------------ store failures
\* pool.getConnection() or connection.execute() throws inside a handler's try:
\* its catch answers 500 with the handler's message (followed by e.message)
FailureMessage(op) ==
    CASE op = "db_check" -> "Failed to connect to the local database"
      [] op = "register" -> "Registration failed"
      [] op = "login" -> "Login failed"
      [] op = "addexpense" -> "Failed to add expense"
      [] op = "expenses" -> "Failed to retrieve expenses"
      [] op = "delete_expense" -> "Failed to delete expense"
      [] op = "expense" -> "Failed to retrieve single expense"
      [] op = "update_expense" -> "Failed to update expense"
      [] op = "get_limit" -> "Failed to retrieve limit"
      [] op = "set_limit" -> "Failed to set limit"
      [] op = "today" -> "Failed to get today's report"
      [] op = "month" -> "Failed to get month report"
      [] op = "year" -> "Failed to get year report"
\* a variant of a report's catch that answers what the handler has so far
CatchResponsePartial(op, step) ==
    IF op \in Windows /\ step = 2 /\ rep # <<>>
    THEN SuccessData([window |-> op, series |-> rep[1].series, raw_expenses |-> <<>>,
                      total_expenses |-> 0, category_totals |-> <<>>])
    ELSE Error(500, FailureMessage(op))
\* res.status(500).json({ status: "error", message: `...: ${e.message}` })
CatchResponse(op, step) == Error(500, FailureMessage(op))
Caught(op, step) ==
    Sent(IF op \in Windows THEN "report" ELSE op, CatchResponse(op, step),
         [failed |-> TRUE, step |-> step])

\* the handlers whose requests reach the store once their checks pass
StoreHandlers ==
    {"db_check", "register", "login", "addexpense", "expenses", "delete_expense",
     "expense", "update_expense", "get_limit", "set_limit", "today", "month", "year"}

\* a handler's connection or first statement fails: nothing was written
FirstCallFails(op) ==
    /\ resp' = Caught(op, 1)
    /\ UNCHANGED <<expenseVars, authVars, poolVars, clientVars, chart>>

\* the UPDATE of an update request fails after its SELECT
UpdateExpenseExecFails ==
    /\ upd # <<>>
    /\ upd' = <<>>
    /\ resp' = Caught("update_expense", 2)
    /\ UNCHANGED <<expenses, nextExpenseId, now, rep, authVars, poolVars, clientVars, chart>>

\* the second SELECT of a report fails after its first
ReportRawFails ==
    /\ rep # <<>>
    /\ resp' = Caught(rep[1].window, 2)
    /\ rep' = <<>>
    /\ UNCHANGED <<expenses, nextExpenseId, now, upd, authVars, poolVars, clientVars, chart>>

\* bcrypt.hash or the INSERT of a register request fails after its SELECT
RegisterInsertFails(i) ==
    /\ regs' = SubSeq(regs, 1, i - 1) \o SubSeq(regs, i + 1, Len(regs))
    /\ resp' = Caught("register", 2)
    /\ UNCHANGED <<expenseVars, register, nextUserId, uniqueKeys, poolVars, clientVars, chart>>

\* GET /db_check with the store reachable, GET /logout, GET /
DbCheck ==
    /\ resp' = Sent("db_check",
                    Success(200, "Successfully connected to the local database."), <<>>)
    /\ UNCHANGED <<expenseVars, authVars, poolVars, clientVars, chart>>
\* a variant that keeps a session: it remembers the last answer and refuses to
\* log out a caller whose login it has not just answered
LogoutOfSession ==
    /\ resp' = Sent("logout",
                    IF resp.op = "login" /\ resp.res.status = "success"
                    THEN Success(200, "Logged out successfully! (No server-side session used)")
                    ELSE Error(401, "Not logged in!"),
                    <<>>)
    /\ UNCHANGED <<expenseVars, authVars, poolVars, clientVars, chart>>
Logout ==
    /\ resp' = Sent("logout",
                    Success(200, "Logged out successfully! (No server-side session used)"),
                    <<>>)
    /\ UNCHANGED <<expenseVars, authVars, poolVars, clientVars, chart>>
\* res.send('Hello from Node.js Express API!'): a text body, no envelope
Root ==
    /\ resp' = Sent("root", [code |-> 200, text |-> "Hello from Node.js Express API!"],
                    <<>>)
    /\ UNCHANGED <<expenseVars, authVars, poolVars, clientVars, chart>>

\* ------------------------------------------------------- the connection pool
\* mysql.createPool(dbConfig): dbConfig sets no connectionLimit, queueLimit or
\* timeout, so the pool hands out up to its limit of connections and queues
\* every further getConnection() until a connection is released.
\* Number of connections the pool hands out (connectionLimit).
MaxConnections == 3
\* one request more than the pool has connections
MaxRequests == MaxConnections + 1
Requests == 1..MaxRequests

PoolInit ==
    /\ pc = [i \in Requests |-> "new"]
    /\ connection = [i \in Requests |-> FALSE]
    /\ checkedOut = 0
    /\ released = [i \in Requests |-> 0]
    /\ outcome = [i \in Requests |-> "none"]

\* a check before the try fails (no userid, a missing field): answered 400
\* without a connection
RejectBeforeTry(i) ==
    /\ pc[i] = "new"
    /\ pc' = [pc EXCEPT ![i] = "answered"]
    /\ outcome' = [outcome EXCEPT ![i] = "validation"]
    /\ UNCHANGED <<connection, checkedOut, released>>
    /\ UNCHANGED <<expenseVars, authVars, resp, clientVars, chart>>

\* connection = await pool.getConnection(): the call is made
GetConnection(i) ==
    /\ pc[i] = "new"
    /\ pc' = [pc EXCEPT ![i] = "waiting"]
    /\ UNCHANGED <<connection, checkedOut, released, outcome>>
    /\ UNCHANGED <<expenseVars, authVars, resp, clientVars, chart>>

\* the pool has a connection to hand out: the await resumes with it
Grant(i) ==
    /\ pc[i] = "waiting"
    /\ checkedOut < MaxConnections
    /\ checkedOut' = checkedOut + 1
    /\ connection' = [connection EXCEPT ![i] = TRUE]
    /\ pc' = [pc EXCEPT ![i] = "executing"]
    /\ UNCHANGED <<released, outcome>>
    /\ UNCHANGED <<expenseVars, authVars, resp, clientVars, chart>>

\* the pool may open a connection and the store refuses it: getConnection()
\* throws, the catch answers 500, and finally finds `connection` undefined
ConnectFails(i) ==
    /\ pc[i] = "waiting"
    /\ checkedOut < MaxConnections
    /\ pc' = [pc EXCEPT ![i] = "answered"]
    /\ outcome' = [outcome EXCEPT ![i] = "error"]
    /\ UNCHANGED <<connection, checkedOut, released>>
    /\ UNCHANGED <<expenseVars, authVars, resp, clientVars, chart>>

\* the ways out of a try that holds a connection: the last statement's result
\* is answered, a return from inside the try (409, 400, 404), a statement throws
Exits == {"success", "return", "throws"}
\* a variant in which a return from inside the try skips the finally
FinallyReleasesUnlessReturn(i, exit) == connection[i] /\ exit # "return"
\* finally { if (connection) connection.release(); }
FinallyReleases(i, exit) == connection[i]

\* the store answers the handler's last statement (or a statement throws, or
\* the handler returns early): the response is sent and finally runs
Finish(i, exit) ==
    /\ pc[i] = "executing"
    /\ pc' = [pc EXCEPT ![i] = "answered"]
    /\ outcome' = [outcome EXCEPT ![i] = exit]
    /\ released' = [released EXCEPT ![i] = IF FinallyReleases(i, exit) THEN @ + 1 ELSE @]
    /\ checkedOut' = IF FinallyReleases(i, exit) THEN checkedOut - 1 ELSE checkedOut
    /\ UNCHANGED connection
    /\ UNCHANGED <<expenseVars, authVars, resp, clientVars, chart>>

\* ---------------------------------------------------- the browser: ApiService
\* a parameter the request does not carry: the handler reads undefined
NotSent == <<>>
\* `${userid}`, encodeURIComponent(data[key]): a number as its decimal string
UrlEncoded(n) == DecimalStr(n)

\* the methods of ApiService with the handler each request reaches: the result
\* of the call is the handler's answer
ApiCheckDatabase == DbCheck
ApiRegister(username, email, password) == RegisterSelect(username, email, password)
ApiLogin(username, password) == Login(username, password)
ApiLogout == Logout
\* makeRequest(`/expenses?userid=${userid}`)
ApiGetExpenses(userid) == GetExpenses(UrlEncoded(userid))
\* objectToUrlEncoded({ ...expenseData, userid })
ApiAddExpense(userid, expenseData) ==
    AddExpense(UrlEncoded(userid), expenseData.date, expenseData.expensename,
               expenseData.amount, expenseData.paymode, expenseData.category)
\* makeRequest(`/update_expense/${id}`), objectToUrlEncoded({ ...expenseData, userid })
ApiUpdateExpense(id, userid, expenseData) ==
    UpdateExpenseCheck(UrlEncoded(id), UrlEncoded(userid), expenseData.date,
                       expenseData.expensename, expenseData.amount, expenseData.paymode,
                       expenseData.category)
\* makeRequest(`/delete_expense/${id}?userid=${userid}`)
ApiDeleteExpense(id, userid) == DeleteExpense(UrlEncoded(id), UrlEncoded(userid))
\* makeRequest('/limit', { method: 'GET' })
ApiGetLimit == GetLimit(NotSent)
\* objectToUrlEncoded({ number: limit.toString() })
ApiSetLimit(limit) == SetLimit(NotSent, UrlEncoded(limit))
\* makeRequest('/report/today'), '/report/month', '/report/year'
ApiGetTodayReport == ReportBuckets("today", NotSent)
ApiGetMonthReport == ReportBuckets("month", NotSent)
ApiGetYearReport == ReportBuckets("year", NotSent)

\* ------------------------------------------- the browser: requests in flight
\* Number of requests the pages make.
MaxCalls == 5

\* the body of the answer as response.json() yields it: the envelope without
\* the HTTP status; the login answer carries its user under `user`
Json(method, res) ==
    [status |-> res.status, message |-> res.message,
     data |-> IF method = "login" THEN <<>> ELSE res.data,
     user |-> IF method = "login" THEN res.data ELSE <<>>]

\* what fetch and response.json() make of a request: "json", the answer's body
\* parsed; "failed", fetch rejects (TypeError: Failed to fetch); "notjson",
\* response.json() rejects
TransportFailures == {"failed", "notjson"}
Arrived(method, res) == [kind |-> "json", code |-> res.code, body |-> Json(method, res)]
Failed(kind) == [kind |-> kind, code |-> 0, body |-> <<>>]

\* a variant without its try/catch: the rejection reaches the caller
makeRequestUncaught(transport) ==
    IF transport.kind = "json" THEN transport.body
    ELSE [status |-> "thrown", message |-> transport.kind, data |-> <<>>, user |-> <<>>]
\* ApiService.makeRequest: the parsed body, or the error ApiResponse of its catch
makeRequest(transport) ==
    IF transport.kind = "json" THEN transport.body
    ELSE IF transport.kind = "failed"
    THEN [status |-> "error", message |-> "Network error: Could not connect to the server.",
          data |-> <<>>, user |-> <<>>]
    ELSE [status |-> "error", message |-> "An unexpected error occurred: Unexpected token",
          data |-> <<>>, user |-> <<>>]

\* a call: "sent" until the server answers or the transport fails, "answered"
\* until the awaiting handler resumes with result = makeRequest(outcome), "done" after
Call(method, args) ==
    [method |-> method, args |-> args, state |-> "sent", outcome |-> <<>>, result |-> <<>>]
Writes == {"addExpense", "deleteExpense"}
\* room for n more calls, counting the fetchExpenses that follows each write
Room(n) ==
    Len(calls) + n
      + Cardinality({i \in DOMAIN calls :
                       calls[i].method \in Writes /\ calls[i].state # "done"})
      <= MaxCalls
Toast(title, i) == [title |-> title, call |-> i]

\* the answers the server can give to a call in the present store
Answers(c) ==
    CASE c.method = "getExpenses" -> {GetExpensesResponse(UrlEncoded(c.args.userid))}
      [] c.method = "addExpense" ->
           {AddExpenseResponse(UrlEncoded(c.args.userid), c.args.body.date,
                               c.args.body.expensename, c.args.body.amount,
                               c.args.body.paymode, c.args.body.category)}
      [] c.method = "deleteExpense" ->
           {DeleteExpenseResponse(UrlEncoded(c.args.id), UrlEncoded(c.args.userid))}
      [] c.method = "login" ->
           LET rows == {r \in register : r.username = c.args.username}
           IN  {LoginResponse(c.args.username, c.args.password, account) :
                  account \in IF rows = {} THEN {<<>>} ELSE {<<r>> : r \in rows}}
      [] c.method = "logout" ->
           {Success(200, "Logged out successfully! (No server-side session used)")}

\* the server handles the request of call i
Serve(i) ==
    LET c == calls[i]
    IN  /\ c.state = "sent"
        /\ \E res \in Answers(c) :
             /\ calls' = [calls EXCEPT ![i].state = "answered",
                                       ![i].outcome = Arrived(c.method, res)]
             /\ IF c.method = "addExpense" /\ res.code = 201
                THEN /\ nextExpenseId <= MaxExpenses
                     /\ expenses' = expenses \cup
                          {[id |-> nextExpenseId, userid |-> c.args.userid,
                            date |-> ToDateTime(c.args.body.date),
                            expensename |-> c.args.body.expensename,
                            amount |-> parseFloat(c.args.body.amount)[1],
                            paymode |-> c.args.body.paymode,
                            category |-> c.args.body.category]}
                     /\ nextExpenseId' = nextExpenseId + 1
                ELSE IF c.method = "deleteExpense"
                THEN /\ expenses' = DeleteWhere(UrlEncoded(c.args.id), c.args.userid)
                     /\ UNCHANGED nextExpenseId
                ELSE UNCHANGED <<expenses, nextExpenseId>>
        /\ UNCHANGED <<now, upd, rep, authVars, resp, poolVars, chart>>
        /\ UNCHANGED <<isLoggedIn, currentUser, indexIsLoading, dashboardExpenses,
                       dashboardIsLoading, showAddForm, formIsLoading, toasts>>

\* the request of call i, or its answer, is lost or is not JSON
TransportFails(i, kind) ==
    /\ calls[i].state = "sent"
    /\ calls' = [calls EXCEPT ![i].state = "answered", ![i].outcome = Failed(kind)]
    /\ UNCHANGED <<expenseVars, authVars, resp, poolVars, chart>>
    /\ UNCHANGED <<isLoggedIn, currentUser, indexIsLoading, dashboardExpenses,
                   dashboardIsLoading, showAddForm, formIsLoading, toasts>>

\* ------------------------------------------------- the browser: the Dashboard
\* fetchExpenses after its await: setExpenses(response.data), or setExpenses([])
FetchedExpenses(result) ==
    IF result.status = "success" /\ result.data # <<>> THEN result.data[1] ELSE <<>>

\* fetchExpenses up to its await: setIsLoading(true), apiService.getExpenses(user.id)
FetchExpensesCall == Call("getExpenses", [userid |-> currentUser[1].id])

\* useEffect(() => { fetchExpenses() }, [fetchExpenses]) when the Dashboard mounts
DashboardMount ==
    /\ isLoggedIn /\ currentUser # None
    /\ calls = <<>>
    /\ calls' = <<FetchExpensesCall>>
    /\ dashboardIsLoading' = TRUE
    /\ UNCHANGED <<expenseVars, authVars, resp, poolVars, chart>>
    /\ UNCHANGED <<isLoggedIn, currentUser, indexIsLoading, dashboardExpenses, showAddForm,
                   formIsLoading, toasts>>

\* the Add Expense button of the header
ClickAddExpense ==
    /\ isLoggedIn /\ currentUser # None
    /\ calls # <<>>
    /\ ~showAddForm
    /\ showAddForm' = TRUE
    /\ UNCHANGED <<expenseVars, authVars, resp, poolVars, chart>>
    /\ UNCHANGED <<isLoggedIn, currentUser, indexIsLoading, dashboardExpenses,
                   dashboardIsLoading, formIsLoading, toasts, calls>>

\* AddExpenseForm.handleSubmit: setIsLoading(true); onSubmit(expenseData), which
\* is handleAddExpense up to its await and is not awaited; finally
\* setIsLoading(false).  One event handler: the form ends with isLoading false.
HandleSubmit(expenseData) ==
    /\ showAddForm
    /\ ~formIsLoading
    /\ Room(2)
    /\ calls' = Append(calls, Call("addExpense",
                                   [userid |-> currentUser[1].id, body |-> expenseData]))
    /\ formIsLoading' = FALSE
    /\ UNCHANGED <<expenseVars, authVars, resp, poolVars, chart>>
    /\ UNCHANGED <<isLoggedIn, currentUser, indexIsLoading, dashboardExpenses,
                   dashboardIsLoading, showAddForm, toasts>>

\* ExpenseList.handleDelete and the Delete Permanently button of its
\* confirmation: onDelete(expense.id), which is handleDeleteExpense up to its
\* await, then the toast "Expense deleted"
HandleDelete(k) ==
    /\ ~showAddForm
    /\ ~dashboardIsLoading
    /\ k \in DOMAIN dashboardExpenses
    /\ Room(2)
    /\ calls' = Append(calls, Call("deleteExpense",
                                   [id |-> dashboardExpenses[k].id,
                                    userid |-> currentUser[1].id]))
    /\ toasts' = toasts \cup {Toast("Expense deleted", Len(calls) + 1)}
    /\ UNCHANGED <<expenseVars, authVars, resp, poolVars, chart>>
    /\ UNCHANGED <<isLoggedIn, currentUser, indexIsLoading, dashboardExpenses,
                   dashboardIsLoading, showAddForm, formIsLoading>>

\* fetchExpenses, handleAddExpense and handleDeleteExpense after their await
DashboardResumes(i) ==
    LET c == calls[i]
        result == makeRequest(c.outcome)
        done == [calls EXCEPT ![i].state = "done", ![i].result = result]
        ok == result.status = "success"
    IN  /\ c.state = "answered"
        /\ c.method \in {"getExpenses"} \cup Writes
        /\ IF c.method = "getExpenses"
           THEN /\ dashboardExpenses' = FetchedExpenses(result)
                /\ toasts' = toasts \cup
                     {Toast(IF ok /\ result.data # <<>> THEN "Expenses Loaded" ELSE "Error", i)}
                /\ dashboardIsLoading' = FALSE
                /\ calls' = done
                /\ UNCHANGED showAddForm
           ELSE /\ toasts' = toasts \cup {Toast(IF ok THEN "Success" ELSE "Error", i)}
                /\ showAddForm' = IF ok /\ c.method = "addExpense" THEN FALSE ELSE showAddForm
                /\ calls' = IF ok THEN Append(done, FetchExpensesCall) ELSE done
                /\ dashboardIsLoading' = IF ok THEN TRUE ELSE dashboardIsLoading
                /\ UNCHANGED dashboardExpenses
        /\ UNCHANGED <<expenseVars, authVars, resp, poolVars, chart>>
        /\ UNCHANGED <<isLoggedIn, currentUser, indexIsLoading, formIsLoading>>

\* ----------------------------------------------- the browser: ExpenseChart
\* acc.find(item => item.category === expense.category), then
\* existing.amount += expense.amount or acc.push({ category, amount })
AddToCategory(acc, expense) ==
    IF \E k \in DOMAIN acc : acc[k].category = expense.category
    THEN [k \in DOMAIN acc |->
            IF acc[k].category = expense.category
            THEN [acc[k] EXCEPT !.amount = @ + expense.amount] ELSE acc[k]]
    ELSE Append(acc, [category |-> expense.category, amount |-> expense.amount])
\* expenses.reduce(..., [])
RECURSIVE categoryData(_)
categoryData(list) ==
    IF list = <<>> THEN <<>>
    ELSE AddToCategory(categoryData(SubSeq(list, 1, Len(list) - 1)), list[Len(list)])

\* acc.find(item => item.date === date), then existing.amount += expense.amount
\* or acc.push({ date, amount })
AddToDate(acc, expense) ==
    IF \E k \in DOMAIN acc : acc[k].date = expense.date
    THEN [k \in DOMAIN acc |->
            IF acc[k].date = expense.date
            THEN [acc[k] EXCEPT !.amount = @ + expense.amount] ELSE acc[k]]
    ELSE Append(acc, [date |-> expense.date, amount |-> expense.amount])
RECURSIVE DailyReduce(_)
DailyReduce(list) ==
    IF list = <<>> THEN <<>>
    ELSE AddToDate(DailyReduce(SubSeq(list, 1, Len(list) - 1)), list[Len(list)])
\* .sort((a, b) => new Date(a.date).getTime() - new Date(b.date).getTime()): the
\* entries, whose dates differ, by ascending date
RECURSIVE SortByDate(_)
SortByDate(entries) ==
    IF entries = <<>> THEN <<>>
    ELSE LET k == CHOOSE k \in DOMAIN entries :
                     \A j \in DOMAIN entries : ~Before(entries[j].date, entries[k].date)
         IN  <<entries[k]>>
               \o SortByDate(SubSeq(entries, 1, k - 1) \o SubSeq(entries, k + 1, Len(entries)))
\* the number of entries .slice(-7) keeps
ChartDays == 7
\* a variant that keeps the first entries: .slice(0, 7)
SliceFirst(entries) ==
    SubSeq(entries, 1, IF Len(entries) < ChartDays THEN Len(entries) ELSE ChartDays)
\* .slice(-7)
SliceLast(entries) ==
    SubSeq(entries, IF Len(entries) > ChartDays THEN Len(entries) - ChartDays + 1 ELSE 1,
           Len(entries))
dailyData(list) == SliceLast(SortByDate(DailyReduce(list)))

NoChart == [expenses |-> <<>>, categoryData |-> <<>>, dailyData |-> <<>>, rendered |-> FALSE]
ChartInit == chart = NoChart
\* <ExpenseChart expenses={expenses} />, rendered when the Dashboard is not loading
RenderChart ==
    /\ ~dashboardIsLoading
    /\ ~showAddForm
    /\ chart' = [expenses |-> dashboardExpenses,
                 categoryData |-> categoryData(dashboardExpenses),
                 dailyData |-> dailyData(dashboardExpenses),
                 rendered |-> TRUE]
    /\ UNCHANGED <<expenseVars, authVars, resp, poolVars, clientVars>>

\* ------------------------------------------------------ the browser: Index
\* Index renders the Dashboard: if (isLoggedIn && currentUser)
DashboardShown == isLoggedIn /\ currentUser # None

\* a variant of handleLogin's test that takes any answer for a login
LoginAcceptedAnyAnswer(result) == TRUE
\* handleLogin: result.status === 'success' && result.user
LoginAccepted(result) == result.status = "success" /\ result.user # <<>>

\* handleLogin up to its await: setIsLoading(true), apiService.login(username, password);
\* the form is rendered while the Dashboard is not, its button disabled={isLoading}
HandleLogin(username, password) ==
    /\ ~DashboardShown
    /\ ~indexIsLoading
    /\ Len(calls) < MaxCalls
    /\ indexIsLoading' = TRUE
    /\ calls' = Append(calls, Call("login", [username |-> username, password |-> password]))
    /\ UNCHANGED <<expenseVars, authVars, resp, poolVars, chart>>
    /\ UNCHANGED <<isLoggedIn, currentUser, dashboardExpenses, dashboardIsLoading,
                   showAddForm, formIsLoading, toasts>>

\* handleLogout up to its await, from the Dashboard's Logout button
HandleLogout ==
    /\ DashboardShown
    /\ Len(calls) < MaxCalls
    /\ indexIsLoading' = TRUE
    /\ calls' = Append(calls, Call("logout", <<>>))
    /\ UNCHANGED <<expenseVars, authVars, resp, poolVars, chart>>
    /\ UNCHANGED <<isLoggedIn, currentUser, dashboardExpenses, dashboardIsLoading,
                   showAddForm, formIsLoading, toasts>>

\* handleLogin and handleLogout after their await, with their finally
IndexResumes(i) ==
    LET c == calls[i]
        result == makeRequest(c.outcome)
    IN  /\ c.state = "answered"
        /\ c.method \in {"login", "logout"}
        /\ calls' = [calls EXCEPT ![i].state = "done", ![i].result = result]
        /\ IF c.method = "login"
           THEN IF LoginAccepted(result)
                THEN /\ currentUser' = result.user
                     /\ isLoggedIn' = TRUE
                     /\ toasts' = toasts \cup {Toast("Login Successful", i)}
                ELSE /\ toasts' = toasts \cup {Toast("Login Failed", i)}
                     /\ UNCHANGED <<isLoggedIn, currentUser>>
           ELSE IF result.status = "success"
                THEN /\ isLoggedIn' = FALSE
                     /\ currentUser' = None
                     /\ toasts' = toasts \cup {Toast("Logged Out", i)}
                ELSE /\ toasts' = toasts \cup {Toast("Logout Failed", i)}
                     /\ UNCHANGED <<isLoggedIn, currentUser>>
        /\ indexIsLoading' = FALSE
        /\ UNCHANGED <<expenseVars, authVars, resp, poolVars, chart>>
        /\ UNCHANGED <<dashboardExpenses, dashboardIsLoading, showAddForm, formIsLoading>>

ClientInit ==
    /\ isLoggedIn = FALSE
    /\ currentUser = None
    /\ indexIsLoading = FALSE
    /\ dashboardExpenses = <<>>
    /\ dashboardIsLoading = TRUE
    /\ showAddForm = FALSE
    /\ formIsLoading = FALSE
    /\ toasts = {}
    /\ calls = <<>>

\* ------------------------------------------------------------- specification
Init ==
    /\ expenses = {}
    /\ nextExpenseId = 1
    /\ now = <<2025, 1, 31>>
    /\ upd = <<>>
    /\ rep = <<>>
    /\ register = {}
    /\ nextUserId = 1
    /\ regs = <<>>
    /\ uniqueKeys = FALSE
    /\ resp = NoResponse
    /\ PoolInit
    /\ ChartInit
    /\ ClientInit

\* the expense handlers
Next ==
    \/ \E r \in AddRequests :
         AddExpense(r.userid, r.body.date, r.body.expensename, r.body.amount,
                    r.body.paymode, r.body.category)
    \/ \E userid \in UserIdInputs : GetExpenses(userid)
    \/ \E r \in IdRequests : DeleteExpense(r.expense_id, r.userid)
    \/ \E r \in IdRequests : GetExpense(r.expense_id, r.userid)
    \/ \E r \in UpdateRequests :
         UpdateExpenseCheck(r.expense_id, r.userid, r.body.date, r.body.expensename,
                            r.body.amount, r.body.paymode, r.body.category)
    \/ \E b \in {OneBody, OtherBody} :
         UpdateExpenseExec(b.date, b.expensename, b.amount, b.paymode, b.category)

\* the report handlers, the clock, and the requests that write while they run
NextReport ==
    \/ \E window \in Windows, userid \in UserIdInputs : ReportBuckets(window, userid)
    \/ ReportRaw
    \/ Tick
    \/ \E r \in AddRequests :
         AddExpense(r.userid, r.body.date, r.body.expensename, r.body.amount,
                    r.body.paymode, r.body.category)
    \/ \E r \in IdRequests : DeleteExpense(r.expense_id, r.userid)

Spec == Init /\ [][Next]_vars
SpecReport == Init /\ [][NextReport]_vars

\* register and login; the schema of `register` is not part of the handlers, so
\* both schemas are taken
InitAuth ==
    /\ expenses = {}
    /\ nextExpenseId = 1
    /\ now = <<2025, 1, 31>>
    /\ upd = <<>>
    /\ rep = <<>>
    /\ register = {}
    /\ nextUserId = 1
    /\ regs = <<>>
    /\ uniqueKeys \in BOOLEAN
    /\ resp = NoResponse
    /\ PoolInit
    /\ ChartInit
    /\ ClientInit

NextAuth ==
    \/ \E r \in RegisterRequests : RegisterSelect(r.username, r.email, r.password)
    \/ \E i \in 1..Len(regs), salt \in Salts : RegisterInsert(i, salt)
    \/ \E r \in LoginRequests : Login(r.username, r.password)

SpecAuth == InitAuth /\ [][NextAuth]_vars

\* add, update and list with the amounts a form can carry: a whole number, zero,
\* a negative number, a number followed by text, text, nothing
AmountInputs == {<<"1">>, <<"0">>, <<"-", "1">>, <<"1", "x">>, <<"x">>, <<>>}
AmountBodies == {Body(<<2025, 1, 31>>, a, "food") : a \in AmountInputs}
NextAmount ==
    \/ \E userid \in {<<"1">>, <<"2">>}, b \in AmountBodies :
         AddExpense(userid, b.date, b.expensename, b.amount, b.paymode, b.category)
    \/ \E i \in 1..MaxExpenses, userid \in {<<"1">>, <<"2">>}, b \in AmountBodies :
         UpdateExpenseCheck(Str(i), userid, b.date, b.expensename, b.amount, b.paymode,
                            b.category)
    \/ \E b \in AmountBodies :
         UpdateExpenseExec(b.date, b.expensename, b.amount, b.paymode, b.category)
    \/ \E userid \in {<<"1">>, <<"2">>} : GetExpenses(userid)

SpecAmount == Init /\ [][NextAmount]_vars

\* the limit handlers, with the registrations that create the user rows
NextLimit ==
    \/ \E r \in RegisterRequests : RegisterSelect(r.username, r.email, r.password)
    \/ \E i \in 1..Len(regs), salt \in Salts : RegisterInsert(i, salt)
    \/ \E userid \in UserIdInputs : GetLimit(userid)
    \/ \E r \in LimitRequests : SetLimit(r.userid, r.number)

SpecLimit == InitAuth /\ [][NextLimit]_vars

\* the reports over expenses that carry a time of day: two of one day at
\* different hours, one of an earlier day, one of the next month, one of the
\* year before, and one of another user
TimedDates ==
    {<<2025, 1, 31, 9>>, <<2025, 1, 31, 8>>, <<2025, 1, 30>>, <<2025, 2, 1, 8>>,
     <<2024, 1, 31>>}
TimedRequests ==
    {[userid |-> <<"1">>, body |-> Body(d, <<"1">>, "food")] : d \in TimedDates}
    \cup {[userid |-> <<"1">>, body |-> Body(<<2025, 1, 31, 9>>, <<"2">>, "rent")],
          [userid |-> <<"2">>, body |-> Body(<<2025, 1, 31, 9>>, <<"2">>, "rent")]}
NextSeries ==
    \/ \E r \in TimedRequests :
         AddExpense(r.userid, r.body.date, r.body.expensename, r.body.amount,
                    r.body.paymode, r.body.category)
    \/ \E window \in Windows, userid \in {<<"1">>, <<"2">>} : ReportBuckets(window, userid)
    \/ ReportRaw
    \/ Tick

SpecSeries == Init /\ [][NextSeries]_vars

\* every handler, with one well-formed request each, its store calls succeeding
\* or failing
NextFail ==
    \/ AddExpense(<<"1">>, OneBody.date, OneBody.expensename, OneBody.amount,
                  OneBody.paymode, OneBody.category)
    \/ GetExpenses(<<"1">>)
    \/ DeleteExpense(<<"1">>, <<"1">>)
    \/ GetExpense(<<"1">>, <<"1">>)
    \/ UpdateExpenseCheck(<<"1">>, <<"1">>, OtherBody.date, OtherBody.expensename,
                          OtherBody.amount, OtherBody.paymode, OtherBody.category)
    \/ UpdateExpenseExec(OtherBody.date, OtherBody.expensename, OtherBody.amount,
                         OtherBody.paymode, OtherBody.category)
    \/ \E window \in Windows : ReportBuckets(window, <<"1">>)
    \/ ReportRaw
    \/ RegisterSelect(<<"a">>, Email("a"), "p")
    \/ \E i \in 1..Len(regs), salt \in Salts : RegisterInsert(i, salt)
    \/ \E password \in {"p", "q"} : Login(<<"a">>, password)
    \/ GetLimit(<<"1">>)
    \/ SetLimit(<<"1">>, <<"5">>)
    \/ DbCheck
    \/ Logout
    \/ Root
    \/ \E op \in StoreHandlers : FirstCallFails(op)
    \/ UpdateExpenseExecFails
    \/ ReportRawFails
    \/ \E i \in 1..Len(regs) : RegisterInsertFails(i)

SpecFail == Init /\ [][NextFail]_vars

\* login and logout among the requests that read and write the store
NextSession ==
    \/ \E password \in {"p", "q"} : Login(<<"a">>, password)
    \/ FirstCallFails("login")
    \/ Logout
    \/ RegisterSelect(<<"a">>, Email("a"), "p")
    \/ \E i \in 1..Len(regs), salt \in Salts : RegisterInsert(i, salt)
    \/ AddExpense(<<"1">>, OneBody.date, OneBody.expensename, OneBody.amount,
                  OneBody.paymode, OneBody.category)
    \/ GetExpenses(<<"1">>)
    \/ DeleteExpense(<<"1">>, <<"1">>)
    \/ GetLimit(<<"1">>)
    \/ SetLimit(<<"1">>, <<"5">>)

SpecSession == InitAuth /\ [][NextSession]_vars

\* every method of ApiService called with the values the pages hold (the id of
\* the logged-in user, the ids of listed expenses, the fields of the form), and
\* the second statements of the handlers that have two
NextApi ==
    \/ ApiCheckDatabase
    \/ ApiRegister(<<"a">>, Email("a"), "p")
    \/ \E i \in 1..Len(regs), salt \in Salts : RegisterInsert(i, salt)
    \/ \E password \in {"p", "q"} : ApiLogin(<<"a">>, password)
    \/ ApiLogout
    \/ \E userid \in UserIds : ApiGetExpenses(userid)
    \/ \E userid \in UserIds : ApiAddExpense(userid, OneBody)
    \/ \E id \in 1..MaxExpenses : ApiUpdateExpense(id, 1, OtherBody)
    \/ UpdateExpenseExec(OtherBody.date, OtherBody.expensename, OtherBody.amount,
                         OtherBody.paymode, OtherBody.category)
    \/ \E id \in 1..MaxExpenses : ApiDeleteExpense(id, 1)
    \/ ApiGetLimit
    \/ \E limit \in {0, 5} : ApiSetLimit(limit)
    \/ ApiGetTodayReport
    \/ ApiGetMonthReport
    \/ ApiGetYearReport

SpecApi == InitAuth /\ [][NextApi]_vars

\* the Dashboard of a logged-in user whose account the store holds
TheUser == [id |-> 1, username |-> <<"a">>, email |-> Email("a")]
InitDashboard ==
    /\ expenses = {}
    /\ nextExpenseId = 1
    /\ now = <<2025, 1, 31>>
    /\ upd = <<>>
    /\ rep = <<>>
    /\ register = {[id |-> 1, username |-> <<"a">>, email |-> Email("a"),
                    password |-> BcryptHash("p", "s1"), spending_limit |-> None]}
    /\ nextUserId = 2
    /\ regs = <<>>
    /\ uniqueKeys = FALSE
    /\ resp = NoResponse
    /\ PoolInit
    /\ ChartInit
    /\ isLoggedIn = TRUE
    /\ currentUser = <<TheUser>>
    /\ indexIsLoading = FALSE
    /\ dashboardExpenses = <<>>
    /\ dashboardIsLoading = TRUE
    /\ showAddForm = FALSE
    /\ formIsLoading = FALSE
    /\ toasts = {}
    /\ calls = <<>>

NextDashboard ==
    \/ DashboardMount
    \/ ClickAddExpense
    \/ HandleSubmit(OneBody)
    \/ \E k \in 1..MaxExpenses : HandleDelete(k)
    \/ \E i \in DOMAIN calls : Serve(i)
    \/ \E i \in DOMAIN calls, kind \in TransportFailures : TransportFails(i, kind)
    \/ \E i \in DOMAIN calls : DashboardResumes(i)

SpecDashboard == InitDashboard /\ [][NextDashboard]_vars

\* Index with the login form, over a store that holds one account
InitIndex ==
    /\ expenses = {}
    /\ nextExpenseId = 1
    /\ now = <<2025, 1, 31>>
    /\ upd = <<>>
    /\ rep = <<>>
    /\ register = {[id |-> 1, username |-> <<"a">>, email |-> Email("a"),
                    password |-> BcryptHash("p", "s1"), spending_limit |-> None]}
    /\ nextUserId = 2
    /\ regs = <<>>
    /\ uniqueKeys = FALSE
    /\ resp = NoResponse
    /\ PoolInit
    /\ ChartInit
    /\ ClientInit

NextIndex ==
    \/ \E r \in {<<"a", "p">>, <<"a", "q">>, <<"b", "p">>} : HandleLogin(<<r[1]>>, r[2])
    \/ HandleLogout
    \/ \E i \in DOMAIN calls : Serve(i)
    \/ \E i \in DOMAIN calls, kind \in TransportFailures : TransportFails(i, kind)
    \/ \E i \in DOMAIN calls : IndexResumes(i)

SpecIndex == InitIndex /\ [][NextIndex]_vars

\* ExpenseChart over the lists the Dashboard can hold after a fetch: the rows of
\* any of MaxDates dates, newest first, one per date and at most one date with two
\* Number of dates with an expense.
MaxDates == 9
ChartDate(k) == IF k = 1 THEN <<2024, 12, 31>> ELSE <<2025, 1, k - 1>>
ChartExpense(id, k, amount, category) ==
    [id |-> id, userid |-> 1, date |-> ChartDate(k), expensename |-> "lunch",
     amount |-> amount, paymode |-> "cash", category |-> category]
\* the expenses of the dates in S, those of date k2 twice, by descending date
RECURSIVE ChartList(_, _)
ChartList(S, k2) ==
    IF S = {} THEN <<>>
    ELSE LET k == CHOOSE k \in S : \A j \in S : j <= k
         IN  (IF k = k2 THEN <<ChartExpense(MaxDates + 1, k, 1, "other")>> ELSE <<>>)
               \o <<ChartExpense(MaxDates + 1 - k, k, k,
                                 IF k % 2 = 0 THEN "food" ELSE "rent")>>
               \o ChartList(S \ {k}, k2)
ChartInputs == {ChartList(S, k2) : S \in SUBSET (1..MaxDates), k2 \in 0..MaxDates}

InitChart ==
    /\ \E list \in ChartInputs :
          /\ dashboardExpenses = list
          /\ expenses = {[list[k] EXCEPT !.date = ToDateTime(@)] : k \in DOMAIN list}
    /\ nextExpenseId = MaxDates + 2
    /\ now = <<2025, 1, 31>>
    /\ upd = <<>>
    /\ rep = <<>>
    /\ register = {}
    /\ nextUserId = 1
    /\ regs = <<>>
    /\ uniqueKeys = FALSE
    /\ resp = NoResponse
    /\ PoolInit
    /\ ChartInit
    /\ isLoggedIn = TRUE
    /\ currentUser = <<TheUser>>
    /\ indexIsLoading = FALSE
    /\ dashboardIsLoading = FALSE
    /\ showAddForm = FALSE
    /\ formIsLoading = FALSE
    /\ toasts = {}
    /\ calls = <<>>

NextChart == RenderChart

SpecChart == InitChart /\ [][NextChart]_vars

\* the requests and the pool: what Node does (the handler calls getConnection,
\* the pool hands out a free connection) happens whenever it can; when the store
\* answers a statement is up to the store
NextPool ==
    \/ \E i \in Requests : RejectBeforeTry(i)
    \/ \E i \in Requests : GetConnection(i)
    \/ \E i \in Requests : Grant(i)
    \/ \E i \in Requests : ConnectFails(i)
    \/ \E i \in Requests, exit \in Exits : Finish(i, exit)

SpecPool ==
    /\ Init
    /\ [][NextPool]_vars
    /\ WF_vars(\E i \in Requests : GetConnection(i) \/ RejectBeforeTry(i))
    /\ \A i \in Requests : WF_vars(Grant(i) \/ ConnectFails(i))


\* ======================================================================
\* Properties
\* ======================================================================
IsReport == resp.op = "report" /\ resp.res.code = 200
ReportOf == resp.res.data[1]

\* sums written over index sets and domains, apart from the handlers' reduce
RECURSIVE SumAt(_, _)
SumAt(f, keys) ==
    IF keys = {} THEN 0
    ELSE LET k == CHOOSE k \in keys : TRUE IN f[k] + SumAt(f, keys \ {k})
SumOfAmounts(rows) == SumAt([i \in DOMAIN rows |-> rows[i].amount], DOMAIN rows)
SumOfValues(f) == SumAt(f, DOMAIN f)
SeriesSum(d) ==
    IF d.window = "today"
    THEN SumAt([i \in DOMAIN d.series |-> d.series[i].amount], DOMAIN d.series)
    ELSE SumAt([i \in DOMAIN d.series |-> d.series[i].total_amount], DOMAIN d.series)

\* C1: every report answered, for any window and user, has total_expenses equal
\* to the sum of the amounts of its raw_expenses, and the values of its
\* category_totals sum to total_expenses (with or without writes meanwhile).
C1_TotalsAgree ==
    IsReport =>
        /\ ReportOf.total_expenses = SumOfAmounts(ReportOf.raw_expenses)
        /\ SumOfValues(ReportOf.category_totals) = ReportOf.total_expenses
\* a report over two expenses, answered from a store nobody wrote to meanwhile
C1_Witness ==
    IsReport /\ Len(ReportOf.raw_expenses) = 2 /\ ~resp.aux.writes

\* C2: in a store no other request writes to, the amounts of a report's bucket
\* series (time_series_data, daily_totals, monthly_totals) sum to total_expenses.
C2_BucketSumIsTotal ==
    (IsReport /\ ~resp.aux.writes) => SeriesSum(ReportOf) = ReportOf.total_expenses

\* C3: also when other requests write between a report's two SELECTs (the date
\* staying the same), the amounts of its bucket series sum to total_expenses.
C3_BucketSumIsTotalUnderWrites ==
    (IsReport /\ resp.aux.bucketsDate = resp.aux.rawDate)
        => SeriesSum(ReportOf) = ReportOf.total_expenses

\* C4: every entry of a report's raw_expenses belongs to the requested user and
\* is dated inside the window: the day (today), the month and year (month), the
\* year (year) of the date the handler resolved the window against.
DateInWindow(window, date, today) ==
    CASE window = "today" -> date = today
      [] window = "month" -> date[1] = today[1] /\ date[2] = today[2]
      [] window = "year" -> date[1] = today[1]
C4_RawInWindowOfUser ==
    IsReport =>
        \A i \in DOMAIN ReportOf.raw_expenses :
            /\ ReportOf.raw_expenses[i].userid = resp.aux.userid
            /\ DateInWindow(ReportOf.window, ReportOf.raw_expenses[i].date,
                            resp.aux.rawDate)
\* a report with an entry, from a table that also holds a row it must leave out
C4_Witness ==
    /\ IsReport
    /\ Len(ReportOf.raw_expenses) >= 1
    /\ \E r \in expenses :
         \/ r.userid # resp.aux.userid
         \/ ~DateInWindow(ReportOf.window, FormatDate(r.date), resp.aux.rawDate)

\* C5: read-single, update and delete of an expense id the requester does not
\* own answer 404 with one fixed body each, the same whether the id is a row of
\* another user or of nobody.
NotFoundBody(op) ==
    CASE op = "expense" -> Error(404, "Expense not found or not authorized.")
      [] op = "update_expense" ->
           Error(404, "Expense not found or not authorized to update.")
      [] op = "delete_expense" ->
           Error(404, "Expense not found or not authorized to delete.")
NamesUnowned(r) ==
    /\ r.op \in {"expense", "update_expense", "delete_expense"}
    /\ r.aux # <<>>
    /\ ~r.aux.owned
C5_UnownedIsNotFound == NamesUnowned(resp) => resp.res = NotFoundBody(resp.op)
\* a delete naming a row of another user
C5_Witness == NamesUnowned(resp) /\ resp.op = "delete_expense" /\ resp.aux.exists

\* C6: a delete or update naming an expense id of a different user leaves the
\* table as it was, and so the list of every user.
C6_UnownedLeavesTable ==
    [][(resp'.op \in {"update_expense", "delete_expense"} /\ NamesUnowned(resp'))
         => /\ expenses' = expenses
            /\ \A u \in UserIds : SelectByUser(u)' = SelectByUser(u)]_vars
\* an update naming a row of another user has been answered
C6_Witness ==
    NamesUnowned(resp) /\ resp.op = "update_expense" /\ resp.aux.exists

\* C7: an update answers success only if its UPDATE statement matched a row of
\* the requester.
C7_UpdateSuccessHadRow ==
    (resp.op = "update_expense" /\ resp.res.status = "success") => resp.aux.matched

\* C8: no two rows of `register` share a username or an email, and a register
\* request whose username or email is in the table is answered 409 and inserts
\* nothing.
NoSharedUsernameOrEmail ==
    \A r, q \in register : r # q => r.username # q.username /\ r.email # q.email
C8_UniqueUsersAndConflict ==
    /\ NoSharedUsernameOrEmail
    /\ (resp.op = "register" /\ resp.aux.taken)
         => resp.res.code = 409 /\ ~resp.aux.inserted

\* C9: a register request whose email does not match the pattern is answered
\* 400 and inserts nothing, whatever its username.
C9_BadEmailIsValidationError ==
    (resp.op = "register" /\ ~resp.aux.emailOk)
        => resp.res.code = 400 /\ ~resp.aux.inserted

\* C10: a login that carries a username and a password either succeeds, and then
\* the password is the one hashed in a row of that username and the body holds
\* id, username and email only, or is answered 401 with one fixed body, the same
\* for an unregistered username and for a wrong password.
C10_LoginRevealsNothing ==
    (resp.op = "login" /\ resp.aux.username # <<>> /\ resp.aux.password # "")
        => IF resp.res.code = 200
           THEN /\ \E r \in register :
                     /\ r.username = resp.aux.username
                     /\ r.password[3] = resp.aux.password
                     /\ r.id = resp.res.data[1].id
                /\ DOMAIN resp.res.data[1] = {"id", "username", "email"}
           ELSE resp.res = Error(401, "Incorrect username / password!")
\* a registered username with a wrong password has been refused
C10_Witness ==
    /\ resp.op = "login"
    /\ resp.res.code = 401
    /\ resp.aux.registered
    /\ resp.aux.password # ""

\* C11: every stored expense has a non-negative amount, whatever add and update
\* requests the API has accepted.
C11_AmountsNonNegative == \A r \in expenses : r.amount >= 0

\* C12: a set-limit request naming a user row whose value is negative or not a
\* number is answered 400 and leaves every stored spending limit as it was.
NegativeNumber(s) == Len(s) >= 2 /\ s[1] = "-" /\ \A k \in 2..Len(s) : IsDigit(s[k])
NotANumber(s) == \A k \in 1..Len(s) : ~IsDigit(s[k])
NamesUserRow(r) ==
    r.aux.userid # <<>> /\ \E u \in register : u.id = r.aux.userid[1]
C12_BadLimitIsRejected ==
    (/\ resp.op = "set_limit"
     /\ NamesUserRow(resp)
     /\ NegativeNumber(resp.aux.number) \/ NotANumber(resp.aux.number))
        => resp.res.code = 400 /\ ~resp.aux.changed

\* C13: get-limit answers 0 for a user whose limit is unset (or who has no row)
\* and otherwise the stored limit; a set-limit naming no user row is answered 404
\* and changes nothing; a successful set-limit (u, v) makes v the limit of u and
\* leaves every other row as it was; no other step changes the limit of a row.
LimitIn(rows, uid) ==
    IF \E r \in rows : r.id = uid /\ r.spending_limit # None
    THEN (CHOOSE r \in rows : r.id = uid).spending_limit[1]
    ELSE 0
StoredLimit(uid) == LimitIn(register, uid)
SetLimitSucceeded(r) == r.op = "set_limit" /\ r.res.status = "success"
C13_LimitReadsLastWrite ==
    /\ [](/\ (resp.op = "get_limit" /\ resp.res.code = 200)
               => resp.res.data[1].limit = StoredLimit(resp.aux.userid[1])
          /\ (resp.op = "set_limit" /\ resp.res.code # 400 /\ ~NamesUserRow(resp))
               => resp.res.code = 404 /\ ~resp.aux.changed)
    /\ [][/\ SetLimitSucceeded(resp') =>
               /\ LimitIn(register', resp'.aux.userid[1]) = parseFloat(resp'.aux.number)[1]
               /\ \A r \in register : r.id # resp'.aux.userid[1] => r \in register'
               /\ {r.id : r \in register'} = {r.id : r \in register}
          /\ ~SetLimitSucceeded(resp') =>
               \A r \in register :
                   \E q \in register' : q.id = r.id /\ q.spending_limit = r.spending_limit
         ]_vars
\* the limit of one user read back as 5 while the row of another user holds none
C13_Witness ==
    /\ resp.op = "get_limit"
    /\ resp.res.code = 200
    /\ resp.res.data[1].limit = 5
    /\ \E r \in register : r.id # resp.aux.userid[1] /\ r.spending_limit = None

\* C14: a step of a request whose userid, expense id or amount is not a number
\* written in digits answers 400 and leaves the expense table as it was.
ValidNumber(s) == Len(s) >= 1 /\ \A k \in 1..Len(s) : IsDigit(s[k])
Answers400(r) == r.op # "none" /\ r.res.code = 400
C14_InvalidNumberIs400 ==
    [][/\ \A r \in AddRequests :
            (/\ ~ValidNumber(r.userid) \/ ~ValidNumber(r.body.amount)
             /\ AddExpense(r.userid, r.body.date, r.body.expensename, r.body.amount,
                           r.body.paymode, r.body.category))
                => Answers400(resp') /\ expenses' = expenses
       /\ \A userid \in UserIdInputs :
            (~ValidNumber(userid) /\ GetExpenses(userid)) => Answers400(resp')
       /\ \A r \in IdRequests :
            (/\ ~ValidNumber(r.userid) \/ ~ValidNumber(r.expense_id)
             /\ DeleteExpense(r.expense_id, r.userid) \/ GetExpense(r.expense_id, r.userid))
                => Answers400(resp') /\ expenses' = expenses
       /\ \A r \in UpdateRequests :
            (/\ \/ ~ValidNumber(r.userid)
                \/ ~ValidNumber(r.expense_id)
                \/ ~ValidNumber(r.body.amount)
             /\ UpdateExpenseCheck(r.expense_id, r.userid, r.body.date,
                                   r.body.expensename, r.body.amount, r.body.paymode,
                                   r.body.category))
                => Answers400(resp') /\ expenses' = expenses
      ]_vars

\* C15: the list GET /expenses answers holds one entry per row of the requested
\* user and none else, by date descending and, on equal dates, id descending;
\* a second call right after the first (no step between) answers the same list.
IsList(r) == r.op = "expenses" /\ r.res.code = 200
RowOfEntry(e) == CHOOSE r \in expenses : r.id = e.id
C15_ListIsOwnedAndOrdered ==
    /\ [](IsList(resp) =>
            LET list == resp.res.data[1]
                owned == {r \in expenses : r.userid = resp.aux.userid}
            IN  /\ Len(list) = Cardinality(owned)
                /\ \A i \in DOMAIN list :
                     /\ \E r \in owned : r.id = list[i].id
                     /\ list[i] = [RowOfEntry(list[i]) EXCEPT
                                     !.date = <<@[1], @[2], @[3]>>]
                /\ \A i, j \in DOMAIN list :
                     i < j =>
                       LET a == RowOfEntry(list[i])
                           b == RowOfEntry(list[j])
                       IN  Before(b.date, a.date) \/ (a.date = b.date /\ b.id < a.id))
    /\ [][(IsList(resp) /\ IsList(resp') /\ resp'.aux = resp.aux)
            => resp'.res = resp.res]_vars
\* a list of two expenses of one date
C15_Witness ==
    /\ IsList(resp)
    /\ Len(resp.res.data[1]) = 2
    /\ resp.res.data[1][1].date = resp.res.data[1][2].date

\* C16: answered from a store nobody wrote to meanwhile and on one date, the
\* month report's daily_totals has one entry per calendar day on which the user
\* has an expense in the current month, its amount the sum of that day's
\* expenses, by day ascending; the year report's monthly_totals has one entry per
\* month with an expense of the user in the current year, its amount the sum of
\* that month's expenses, by month number ascending.
SumOfRows(rows) == SumAt([r \in rows |-> r.amount], rows)
QuietReport(window) ==
    /\ IsReport
    /\ ReportOf.window = window
    /\ ~resp.aux.writes
    /\ resp.aux.bucketsDate = resp.aux.rawDate
DayOf(r) == <<r.date[1], r.date[2], r.date[3]>>
C16_OneBucketPerDayAndMonth ==
    /\ QuietReport("month") =>
         LET today == resp.aux.rawDate
             mine == {r \in expenses : /\ r.userid = resp.aux.userid
                                       /\ r.date[1] = today[1]
                                       /\ r.date[2] = today[2]}
             series == ReportOf.series
         IN  /\ Len(series) = Cardinality({DayOf(r) : r \in mine})
             /\ \A i \in DOMAIN series :
                  /\ \E r \in mine : DayOf(r) = series[i].day
                  /\ series[i].total_amount =
                       SumOfRows({r \in mine : DayOf(r) = series[i].day})
             /\ \A i, j \in DOMAIN series : i < j => Before(series[i].day, series[j].day)
    /\ QuietReport("year") =>
         LET today == resp.aux.rawDate
             mine == {r \in expenses : r.userid = resp.aux.userid /\ r.date[1] = today[1]}
             series == ReportOf.series
         IN  /\ Len(series) = Cardinality({r.date[2] : r \in mine})
             /\ \A i \in DOMAIN series :
                  /\ \E r \in mine : r.date[2] = series[i].month_num
                  /\ series[i].total_amount =
                       SumOfRows({r \in mine : r.date[2] = series[i].month_num})
             /\ \A i, j \in DOMAIN series :
                  i < j => series[i].month_num < series[j].month_num
\* a month report whose one entry sums two expenses of one day at different hours
C16_Witness ==
    /\ QuietReport("month")
    /\ Len(ReportOf.series) = 1
    /\ Len(ReportOf.raw_expenses) = 2
    /\ \E r, q \in expenses : r.date[4] # q.date[4]

\* C17: every point of a today report's time_series_data carries the date the
\* handler took as today, and the points are in chronological order; answered
\* from a store nobody wrote to meanwhile, the series has one point per expense
\* of the user dated today, as many as raw_expenses, each with the time and the
\* amount of its expense (expenses of one time are not summed).
C17_OnePointPerExpenseToday ==
    (IsReport /\ ReportOf.window = "today") =>
        LET series == ReportOf.series
            today == resp.aux.rawDate
            mine == {r \in expenses : r.userid = resp.aux.userid /\ DayOf(r) = today}
        IN  /\ \A i \in DOMAIN series : series[i].date_only = today
            /\ \A i, j \in DOMAIN series :
                 i < j => series[i].time_of_day <= series[j].time_of_day
            /\ ~resp.aux.writes =>
                 /\ Len(series) = Len(ReportOf.raw_expenses)
                 /\ Len(series) = Cardinality(mine)
                 /\ \A r \in mine :
                      Cardinality({i \in DOMAIN series :
                                     /\ series[i].time_of_day = r.date[4]
                                     /\ series[i].amount = r.amount})
                        = Cardinality({q \in mine : /\ q.date[4] = r.date[4]
                                                    /\ q.amount = r.amount})
\* a today report with two points of one time of day
C17_Witness ==
    /\ QuietReport("today")
    /\ Len(ReportOf.series) = 2
    /\ ReportOf.series[1].time_of_day = ReportOf.series[2].time_of_day

\* C18: a report request with a well-formed userid is answered 200, there being
\* a user row or not; when the user has no expense in the window (the store not
\* written to and the date not changing meanwhile) its bucket series and
\* raw_expenses are empty, total_expenses is 0 and category_totals has no entry;
\* in every report category_totals has exactly the categories of raw_expenses.
C18_EmptyWindowIsEmptyReport ==
    /\ (resp.op = "report" /\ resp.aux # <<>>) => resp.res.code = 200
    /\ IsReport =>
         /\ DOMAIN ReportOf.category_totals =
              {ReportOf.raw_expenses[i].category : i \in DOMAIN ReportOf.raw_expenses}
         /\ (/\ ~resp.aux.writes
             /\ resp.aux.bucketsDate = resp.aux.rawDate
             /\ ~\E r \in expenses :
                   /\ r.userid = resp.aux.userid
                   /\ DateInWindow(ReportOf.window, DayOf(r), resp.aux.rawDate))
              => /\ Len(ReportOf.series) = 0
                 /\ Len(ReportOf.raw_expenses) = 0
                 /\ ReportOf.total_expenses = 0
                 /\ DOMAIN ReportOf.category_totals = {}
\* an empty report from a table that holds expenses outside the window or of
\* another user
C18_Witness ==
    /\ IsReport
    /\ ~resp.aux.writes
    /\ resp.aux.bucketsDate = resp.aux.rawDate
    /\ Len(ReportOf.raw_expenses) = 0
    /\ Len(ReportOf.series) = 0
    /\ Cardinality(expenses) = 2

\* C19: the UPDATE step of an update request replaces date, name, amount,
\* payment mode and category of the requester's row of that id with the values
\* submitted, keeping its id and userid, and leaves every other row as it was;
\* no step changes the userid of a row.
Updated(r, b) ==
    [id |-> r.id, userid |-> r.userid, date |-> <<b.date[1], b.date[2], b.date[3], 0>>,
     expensename |-> b.expensename, amount |-> parseFloat(b.amount)[1],
     paymode |-> b.paymode, category |-> b.category]
C19_UpdateReplacesFieldsOnly ==
    [][/\ \A b \in {OneBody, OtherBody} :
            (/\ upd # <<>>
             /\ resp'.op = "update_expense"
             /\ UpdateExpenseExec(b.date, b.expensename, b.amount, b.paymode, b.category))
              => /\ resp'.res.status = "success"
                 /\ Cardinality(expenses') = Cardinality(expenses)
                 /\ \A r \in expenses :
                      IF r.id = SqlNumber(upd[1].expense_id) /\ r.userid = upd[1].userIdNum
                      THEN Updated(r, b) \in expenses'
                      ELSE r \in expenses'
       /\ expenses' # expenses =>
            \A r \in expenses, q \in expenses' : q.id = r.id => q.userid = r.userid
      ]_vars
\* an update has replaced the fields of one of two rows
C19_Witness ==
    /\ resp.op = "update_expense"
    /\ resp.res.message = "Expense updated successfully!"
    /\ Cardinality(expenses) = 2
    /\ \E r, q \in expenses : r.userid = q.userid /\ r.category # q.category

\* C20: a request in which a store call failed is answered 500 with status error
\* and no data, a report whose second query failed included; every answer of a
\* handler of the API (every handler but GET /, which answers a text) is an
\* envelope whose status is success or error.
IsEnvelope(res) ==
    /\ DOMAIN res = {"code", "status", "message", "data"}
    /\ res.status \in {"success", "error"}
StoreCallFailed(r) == r.aux # <<>> /\ "failed" \in DOMAIN r.aux
C21_WaitIsBounded ==
    \A i \in Requests : (pc[i] = "waiting") ~> (pc[i] = "answered")

\* C24: an answered request that acquired a connection has released it exactly
\* once, on every way out of the try (success, a return from inside the try, a
\* store exception), a request that acquired none has released none, the number
\* of connections checked out is the number acquired and not yet released, and
\* once every request is answered no connection is checked out.
Holding == {i \in Requests : connection[i] /\ released[i] = 0}
C24_ReleasedExactlyOnce ==
    /\ \A i \in Requests :
          /\ pc[i] = "answered" => released[i] = (IF connection[i] THEN 1 ELSE 0)
          /\ pc[i] # "answered" => released[i] = 0
    /\ checkedOut = Cardinality(Holding)
    /\ (\A i \in Requests : pc[i] = "answered") => checkedOut = 0
\* every request is answered, one of each way out of the try among them, and one
\* without a connection
C24_Witness ==
    /\ \A i \in Requests : pc[i] = "answered"
    /\ \A exit \in Exits : \E i \in Requests : outcome[i] = exit /\ released[i] = 1
    /\ \E i \in Requests : outcome[i] \in {"validation", "error"} /\ released[i] = 0
    /\ checkedOut = 0

\* C22: a login or logout request, answered or failed, leaves the store as it
\* was; logout is always answered with success; and the answer any other request
\* would get is the same after a login or logout as before it, so no answer
\* depends on the logins and logouts that came before.
LoginStep ==
    \/ \E password \in {"p", "q"} : Login(<<"a">>, password)
    \/ FirstCallFails("login")
\* the answers the server would give in this state, one request per handler
\* (for the list, the rows its answer is made of)
AnswersNow ==
    <<SelectByUser(1),
      GetExpenseResponse(<<"1">>, <<"1">>),
      DeleteExpenseResponse(<<"1">>, <<"1">>),
      AddExpenseResponse(<<"1">>, OneBody.date, OneBody.expensename, OneBody.amount,
                         OneBody.paymode, OneBody.category),
      GetLimitResponse(<<"1">>),
      SetLimitResponse(<<"1">>, <<"5">>),
      {LoginResponse(<<"a">>, password, <<account>>) :
          password \in {"p", "q"}, account \in {r \in register : r.username = <<"a">>}},
      {r \in register : r.username = <<"a">>} = {}>>
C22_NoSessionState ==
    [][resp'.op \in {"login", "logout"} =>
          /\ (LoginStep \/ resp'.op = "logout") =>
                /\ UNCHANGED <<expenseVars, authVars>>
                /\ AnswersNow' = AnswersNow
          /\ resp'.op = "logout" =>
                resp'.res =
                    Success(200, "Logged out successfully! (No server-side session used)")
      ]_vars
\* a logout answered with success, with an account and an expense in the store
C22_Witness ==
    /\ resp.op = "logout"
    /\ resp.res.status = "success"
    /\ register # {}
    /\ expenses # {}

\* C23: no request of ApiService is answered with the validation error for a
\* missing userid: every method sends the userid its endpoint requires.
C23_RequestsCarryUserId == resp.res # Error(400, "User ID is required!")

\* C25: once every call of the Dashboard has completed, the expenses displayed
\* are the ones the most recently issued fetchExpenses was answered with: an
\* older answer never replaces a newer one.
Fetches == {i \in DOMAIN calls : calls[i].method = "getExpenses"}
LastFetch == CHOOSE i \in Fetches : \A j \in Fetches : j <= i
C25_LatestFetchWins ==
    (Fetches # {} /\ \A i \in DOMAIN calls : calls[i].state = "done") =>
        dashboardExpenses = FetchedExpenses(calls[LastFetch].result)

\* C26: a delete request that was not answered with status success has no
\* "Expense deleted" notification.
C26_DeletedToastOnlyOnSuccess ==
    \A i \in DOMAIN calls :
        (calls[i].method = "deleteExpense" /\ calls[i].state = "done"
           /\ calls[i].result.status # "success") =>
            Toast("Expense deleted", i) \notin toasts

\* C27: while an add request of the form is in flight the form's isLoading is
\* true (its submit button disabled), so at most one is in flight.
AddsInFlight ==
    {i \in DOMAIN calls : calls[i].method = "addExpense" /\ calls[i].state # "done"}
C27_SubmitDisabledWhileInFlight ==
    /\ AddsInFlight # {} => formIsLoading
    /\ Cardinality(AddsInFlight) <= 1

\* C29: makeRequest resolves every call to an ApiResponse, whatever the
\* transport did, and to one with status error and a message whenever the
\* transport failed, the body was not JSON or the server answered an error.
IsApiResponse(r) ==
    /\ DOMAIN r = {"status", "message", "data", "user"}
    /\ r.status \in {"success", "error"}
C29_MakeRequestNeverThrows ==
    \A i \in DOMAIN calls :
        calls[i].state = "done" =>
            /\ IsApiResponse(calls[i].result)
            /\ (calls[i].outcome.kind # "json" \/ calls[i].outcome.code >= 400) =>
                  /\ calls[i].result.status = "error"
                  /\ calls[i].result.message # ""
\* calls completed after each outcome of the transport: a success body, an
\* error body of the server, a failed fetch, a body that is not JSON
C29_Witness ==
    /\ \E i \in DOMAIN calls :
          calls[i].state = "done" /\ calls[i].outcome.kind = "json"
            /\ calls[i].outcome.code >= 400
    /\ \E i \in DOMAIN calls : calls[i].state = "done" /\ calls[i].outcome.kind = "failed"
    /\ \E i \in DOMAIN calls : calls[i].state = "done" /\ calls[i].outcome.kind = "notjson"
    /\ \E i \in DOMAIN calls : calls[i].state = "done" /\ calls[i].result.status = "success"

\* C28: isLoggedIn is true exactly when currentUser is set; a login answered
\* with success and a user logs in as that user and any other login answer
\* changes nothing; a logout answered with success logs out and a logout
\* answered with error changes nothing; and nothing else logs the user in.
C28_LoggedInIffUser ==
    /\ [](isLoggedIn <=> currentUser # None)
    /\ [][/\ \A i \in DOMAIN calls :
               IndexResumes(i) =>
                   LET result == makeRequest(calls[i].outcome)
                   IN  IF calls[i].method = "login"
                       THEN IF result.status = "success" /\ result.user # <<>>
                            THEN isLoggedIn' /\ currentUser' = result.user
                            ELSE UNCHANGED <<isLoggedIn, currentUser>>
                       ELSE IF result.status = "success"
                            THEN ~isLoggedIn' /\ currentUser' = None
                            ELSE UNCHANGED <<isLoggedIn, currentUser>>
          /\ (DashboardShown' /\ ~DashboardShown) =>
               \E i \in DOMAIN calls :
                   /\ calls[i].method = "login"
                   /\ calls'[i].state = "done"
                   /\ calls[i].state = "answered"
                   /\ calls'[i].result.status = "success"
                   /\ calls'[i].result.user = currentUser'
         ]_vars
\* a login answered with error, a login answered with success, a logout
\* answered with error and a logout answered with success have all completed
C28_Witness ==
    /\ \E i \in DOMAIN calls :
          calls[i].method = "login" /\ calls[i].state = "done"
            /\ calls[i].result.status = "error"
    /\ \E i \in DOMAIN calls :
          calls[i].method = "login" /\ calls[i].state = "done"
            /\ calls[i].result.status = "success"
    /\ \E i \in DOMAIN calls :
          calls[i].method = "logout" /\ calls[i].state = "done"
            /\ calls[i].result.status = "error"
    /\ \E i \in DOMAIN calls :
          calls[i].method = "logout" /\ calls[i].state = "done"
            /\ calls[i].result.status = "success"

\* C30: what ExpenseChart renders from a list of expenses: dailyData has at
\* most 7 entries, in ascending order of pairwise distinct dates, each with the
\* sum of the expenses of its date, for the 7 most recent of the dates that
\* have an expense; categoryData has one entry per category with the sum of
\* the expenses of its category, and its amounts sum to the total of the list.
RECURSIVE SumAmounts(_, _)
SumAmounts(list, S) ==
    IF S = {} THEN 0
    ELSE LET k == CHOOSE k \in S : TRUE IN list[k].amount + SumAmounts(list, S \ {k})
DatesOf(list) == {list[k].date : k \in DOMAIN list}
LaterDates(list, d) == {e \in DatesOf(list) : Before(d, e)}
=============================================================================
